---------------------------- MODULE Spec2Model ----------------------------
(***************************************************************************)
(* A model of kasa-scan (src/kasa_scan.py): device discovery rounds, name  *)
(* or address resolution of one device, power control, and the baseline    *)
(* diff.                                                                   *)
(*                                                                         *)
(* Python values are modelled as follows.                                  *)
(*   str            a sequence of one-character strings, <<"L","a">>       *)
(*   mac values     opaque strings (the code only compares them)           *)
(*   None / value   an attribute that may be None or raise is the set {}   *)
(*                  (absent) or {v} (present)                              *)
(*   dict           a sequence of <<key, value>> pairs in insertion order  *)
(*   list           a sequence                                             *)
(***************************************************************************)
EXTENDS Naturals, Sequences, FiniteSets

VARIABLES
    pc,            \* position of the running command: "idle", "resolved", "done", ...
    cmd,           \* the parsed command line of the running invocation (args)
    found,         \* the dict {ip: dev} the last Discover.discover() returned
    dev,           \* _find_device's return value: {} for None, {session} otherwise
    matches,       \* _find_device's list of (ip, dev) matches of the last name search
    transport,     \* Discovery calls made by the running command, in order
    sent,          \* calls made on the resolved device by control_device, in order
    faults,        \* the calls of the running command that raised
    opened,        \* sessions opened by the running command, as <<round, ip>>
    released,      \* sessions on which disconnect() was called, as <<round, ip>>
    round,         \* number of discovery rounds the running command has completed
    devices,       \* the device list the running command holds
    baselineFile,  \* ~/.kasa_scan/baseline.json: {} if missing, {text} otherwise
    snapshotFile,  \* ~/.kasa_scan/devices.csv: {} if missing, {lines} otherwise
    scanLog,       \* ~/.kasa_scan/scan_log.csv: its lines
    diffOut,       \* what print_diff computed: {} if it was not called
    output,        \* diagnostics printed by the running command, in order
    exitCode,      \* process exit status: {} while running; at the end {0},
                   \* {1}, or {130} after a KeyboardInterrupt
    cancel,        \* the SIGINT received: {} if none, otherwise
                   \* {<<pc, round>>} where the cancellation of the task
                   \* was requested in the watch loop, and
                   \* {<<statement, round>>} where a SIGINT ended one of
                   \* the other commands
    replies        \* datagrams recvfrom returned in the raw scan, as <<probe, ip, data>>

vars == <<pc, cmd, found, dev, matches, transport, sent, faults, opened,
          released, round, devices, baselineFile, snapshotFile, scanLog,
          diffOut, output, exitCode, cancel, replies>>

---------------------------------------------------------------------------
(* Bounds of the model.                                                    *)

\* Longest device list given to print_diff in SpecDiff.
MaxLen == 2

\* Number of hosts that may answer the discovery round of an on / off /
\* toggle command in SpecControl.
MaxHosts == 3

\* Number of hosts that may answer a discovery round of Spec.
MainHosts == 2

\* Number of hosts that may answer a discovery round of the watch loop.
WatchHosts == 2

\* Number of rounds of the watch loop in one behaviour of Spec.
MaxRounds == 2

---------------------------------------------------------------------------
(* Strings.                                                                *)

UpperChars == <<"A","B","C","D","E","F","G","H","I","J","K","L","M",
                "N","O","P","Q","R","S","T","U","V","W","X","Y","Z">>
LowerChars == <<"a","b","c","d","e","f","g","h","i","j","k","l","m",
                "n","o","p","q","r","s","t","u","v","w","x","y","z">>
DigitChars == {"0","1","2","3","4","5","6","7","8","9"}

\* str.lower() on one character.
lower_char(c) ==
    IF \E i \in 1..Len(UpperChars) : UpperChars[i] = c
    THEN LowerChars[CHOOSE i \in 1..Len(UpperChars) : UpperChars[i] = c]
    ELSE c

\* str.lower()
lower(s) == [i \in 1..Len(s) |-> lower_char(s[i])]

\* needle in hay, for strings.
str_in(needle, hay) ==
    \E k \in 0..Len(hay) :
        /\ k + Len(needle) <= Len(hay)
        /\ SubSeq(hay, k + 1, k + Len(needle)) = needle

\* s.split(".")
RECURSIVE split_dot(_)
split_dot(s) ==
    IF \E i \in 1..Len(s) : s[i] = "."
    THEN LET i == CHOOSE j \in 1..Len(s) :
                      s[j] = "." /\ \A k \in 1..(j - 1) : s[k] # "."
         IN <<SubSeq(s, 1, i - 1)>> \o split_dot(SubSeq(s, i + 1, Len(s)))
    ELSE <<s>>

\* str.isdigit(): non-empty and every character a digit.
isdigit(p) == Len(p) > 0 /\ \A i \in 1..Len(p) : p[i] \in DigitChars

Range(s) == {s[i] : i \in 1..Len(s)}

\* The characters of the model in code point order.
CharOrder == <<" ", ".">>
             \o <<"0","1","2","3","4","5","6","7","8","9">>
             \o UpperChars \o LowerChars

\* ord(c), up to an order-preserving renumbering.
ord(c) == CHOOSE i \in 1..Len(CharOrder) : CharOrder[i] = c

\* a < b for strings: lexicographic by code point.
str_lt(a, b) ==
    \E k \in 1..Len(b) :
        /\ \A j \in 1..(k - 1) : j <= Len(a) /\ a[j] = b[j]
        /\ \/ k = Len(a) + 1
           \/ k <= Len(a) /\ ord(a[k]) < ord(b[k])

str_le(a, b) == a = b \/ str_lt(a, b)

\* s.replace(old, ""), old not empty: every occurrence of old, left to
\* right, is dropped.
RECURSIVE str_remove(_, _)
str_remove(s, old) ==
    IF Len(s) < Len(old) THEN s
    ELSE IF SubSeq(s, 1, Len(old)) = old
    THEN str_remove(SubSeq(s, Len(old) + 1, Len(s)), old)
    ELSE <<s[1]>> \o str_remove(SubSeq(s, 2, Len(s)), old)

---------------------------------------------------------------------------
(* Attribute access.                                                       *)

\* _safe(obj, attr, default): the attribute, or default when it is None
\* or reading it raises.  obj is a record of optional values.
_safe(obj, attr, default) ==
    IF obj[attr] = {} THEN default ELSE CHOOSE v \in obj[attr] : TRUE

---------------------------------------------------------------------------
(* Filter / sort.                                                          *)

\* x placed into the sorted list srt behind every element whose key is not
\* greater: one step of a stable sort on lower(d[field]).
sorted_insert(srt, x, field) ==
    LET n == Cardinality({i \in 1..Len(srt) :
                 str_le(lower(srt[i][field]), lower(x[field]))})
    IN SubSeq(srt, 1, n) \o <<x>> \o SubSeq(srt, n + 1, Len(srt))

\* sorted(devs, key=lambda d: (d[field] or "").lower()): stable.
RECURSIVE sorted_devices(_, _)
sorted_devices(devs, field) ==
    IF devs = <<>> THEN <<>>
    ELSE LET n == Len(devs)
         IN sorted_insert(sorted_devices(SubSeq(devs, 1, n - 1), field),
                          devs[n], field)

\* filter_devices(devices, name_filter, type_filter): each filter, when
\* given (a set {text}), keeps the records whose lower-cased name / type
\* contains the lower-cased text.
filter_devices(devs, name_filter, type_filter) ==
    LET by_name == IF name_filter = {} THEN devs
                   ELSE SelectSeq(devs, LAMBDA d :
                            str_in(lower(CHOOSE n \in name_filter : TRUE),
                                   lower(d.name)))
    IN IF type_filter = {} THEN by_name
       ELSE SelectSeq(by_name, LAMBDA d :
                str_in(lower(CHOOSE t \in type_filter : TRUE), lower(d.type)))

\* sort_devices(devices, key): stable sort on str(d.get(key, "")).lower().
sort_devices(devs, key) == sorted_devices(devs, key)

---------------------------------------------------------------------------
(* Diff / baseline.                                                        *)

\* Position of key k in dict d, 0 when absent.
dict_index(d, k) ==
    IF \E i \in 1..Len(d) : d[i][1] = k
    THEN CHOOSE i \in 1..Len(d) : d[i][1] = k
    ELSE 0

dict_has(d, k) == dict_index(d, k) # 0
dict_get(d, k) == d[dict_index(d, k)][2]

\* d[k] = v: a new key is appended, an existing key keeps its position and
\* takes the new value.
dict_put(d, k, v) ==
    IF dict_has(d, k)
    THEN [d EXCEPT ![dict_index(d, k)] = <<k, v>>]
    ELSE Append(d, <<k, v>>)

\* {d["mac"]: d for d in devs}
RECURSIVE by_mac(_)
by_mac(devs) ==
    IF devs = <<>> THEN <<>>
    ELSE LET n == Len(devs)
         IN dict_put(by_mac(SubSeq(devs, 1, n - 1)), devs[n].mac, devs[n])

\* The mutation of bl: the first record of a mac is kept, not the last.
RECURSIVE by_mac_first(_)
by_mac_first(devs) ==
    IF devs = <<>> THEN <<>>
    ELSE LET n == Len(devs)
             d == by_mac_first(SubSeq(devs, 1, n - 1))
         IN IF dict_has(d, devs[n].mac) THEN d
            ELSE Append(d, <<devs[n].mac, devs[n]>>)

diff_bl_first(baseline) == by_mac_first(baseline.devices)

\* bl = {d["mac"]: d for d in baseline["devices"]}
diff_bl(baseline) == by_mac(baseline.devices)

\* The mutation of cur: the items of the list as they come, a mac once for
\* every record carrying it.
diff_cur_items(current) ==
    [k \in 1..Len(current) |-> <<current[k].mac, current[k]>>]

\* cur = {d["mac"]: d for d in current}
diff_cur(current) == by_mac(current)

\* new_devs = [d for mac, d in cur.items() if mac not in bl]
new_devs(bl, cur) ==
    LET sel == SelectSeq(cur, LAMBDA item : ~ dict_has(bl, item[1]))
    IN [k \in 1..Len(sel) |-> sel[k][2]]

\* missing = [d for mac, d in bl.items() if mac not in cur]
missing(bl, cur) ==
    LET sel == SelectSeq(bl, LAMBDA item : ~ dict_has(cur, item[1]))
    IN [k \in 1..Len(sel) |-> sel[k][2]]

\* ip_changes = [(bl[mac], cur[mac]) for mac in cur
\*               if mac in bl and cur[mac]["ip"] != bl[mac]["ip"]]
ip_changes(bl, cur) ==
    LET sel == SelectSeq(cur, LAMBDA item :
                   /\ dict_has(bl, item[1])
                   /\ item[2].ip # dict_get(bl, item[1]).ip)
    IN [k \in 1..Len(sel) |-> <<dict_get(bl, sel[k][1]), sel[k][2]>>]

\* The mutation of name_changes: a rename is reported only for a device
\* whose ip is unchanged (as if the two lists were an if / elif).
name_changes_elif(bl, cur) ==
    LET sel == SelectSeq(cur, LAMBDA item :
                   /\ dict_has(bl, item[1])
                   /\ item[2].ip = dict_get(bl, item[1]).ip
                   /\ item[2].name # dict_get(bl, item[1]).name)
    IN [k \in 1..Len(sel) |-> <<dict_get(bl, sel[k][1]), sel[k][2]>>]

\* name_changes = [(bl[mac], cur[mac]) for mac in cur
\*                 if mac in bl and cur[mac]["name"] != bl[mac]["name"]]
name_changes(bl, cur) ==
    LET sel == SelectSeq(cur, LAMBDA item :
                   /\ dict_has(bl, item[1])
                   /\ item[2].name # dict_get(bl, item[1]).name)
    IN [k \in 1..Len(sel) |-> <<dict_get(bl, sel[k][1]), sel[k][2]>>]

\* The mutation of print_diff: "No changes detected." is printed when no
\* device was added or removed, whatever changed on the others.
print_diff_only_population(current, baseline) ==
    LET bl == diff_bl(baseline)
        cur == diff_cur(current)
        a == new_devs(bl, cur)
        m == missing(bl, cur)
    IN [added |-> a, removed |-> m, ip_changed |-> ip_changes(bl, cur),
        name_changed |-> name_changes(bl, cur),
        no_changes |-> (a = <<>> /\ m = <<>>)]

\* print_diff(current, baseline): the four lists and whether
\* "No changes detected." was printed.
print_diff(current, baseline) ==
    LET bl == diff_bl(baseline)
        cur == diff_cur(current)
        a == new_devs(bl, cur)
        m == missing(bl, cur)
        i == ip_changes(bl, cur)
        n == name_changes(bl, cur)
    IN [added |-> a, removed |-> m, ip_changed |-> i, name_changed |-> n,
        no_changes |-> (a = <<>> /\ m = <<>> /\ i = <<>> /\ n = <<>>)]

---------------------------------------------------------------------------
(* Values.                                                                 *)

\* The dotted address 10.0.0.d.
Ip(d) == <<"1", "0", ".", "0", ".", "0", ".", d>>

HostPool == <<Ip("1"), Ip("2"), Ip("3"), Ip("4"), Ip("5")>>

\* The first n host addresses of the network.
Hosts(n) == {HostPool[i] : i \in 1..n}

NameLa  == <<"L", "a">>
NameLab == <<"l", "a", "b">>
NameF   == <<"F">>
NameUnknown == <<"U", "n", "k", "n", "o", "w", "n">>

Mac1 == "AA:BB:CC:00:00:01"
Mac2 == "AA:BB:CC:00:00:02"
MacUnknown == "Unknown"

TypePlug == <<"P", "l", "u", "g">>
TypeBulb == <<"B", "u", "l", "b">>

\* str(DeviceType.Plug), str(DeviceType.Bulb): the enum's name and member.
DeviceTypePrefix == <<"D","e","v","i","c","e","T","y","p","e",".">>
StrDeviceTypePlug == DeviceTypePrefix \o TypePlug
StrDeviceTypeBulb == DeviceTypePrefix \o TypeBulb

\* All lists over S of length at most n.
BoundedSeq(S, n) == UNION {[1..k -> S] : k \in 0..n}

---------------------------------------------------------------------------
(* Device sessions.                                                        *)
(*                                                                         *)
(* A session is the handle Discover returns for one address, described by  *)
(* what its attributes read after the update() that follows discovery:     *)
(* each attribute is {v}, or {} when it is None or reading it raises.      *)
(* update_ok tells whether that update() returned or raised.               *)

\* A session of a device without metering: has_emeter is False.
Session(ip, alias, mac, device_type, is_on, update_ok) ==
    [ip |-> ip, alias |-> alias, mac |-> mac, device_type |-> device_type,
     is_on |-> is_on, update_ok |-> update_ok,
     has_emeter |-> {FALSE},
     emeter_realtime |-> [kind |-> "raises", items |-> <<>>]]

\* The session s of a device with metering whose emeter_realtime is rt.
WithMeter(s, rt) ==
    [s EXCEPT !.has_emeter = {TRUE}, !.emeter_realtime = rt]

\* All dicts {ip: dev} Discover.discover() may return over the addresses H
\* with sessions from S, in every reply order: one session per address.
FoundDicts(H, S) ==
    {f \in BoundedSeq({x \in S : x.ip \in H}, Cardinality(H)) :
        \A i, j \in 1..Len(f) : i # j => f[i].ip # f[j].ip}

---------------------------------------------------------------------------
(* Energy telemetry: _get_energy.                                          *)
(*                                                                         *)
(* A number read from the device is an integer; a normalized number is a   *)
(* fraction n / d.  None is {} and a value v is {v}.                       *)

Rat(n, d) == [n |-> n, d |-> d]

RECURSIVE pow10(_)
pow10(k) == IF k = 0 THEN 1 ELSE 10 * pow10(k - 1)

\* 2^k mod 1000.
RECURSIVE pow2_mod_1000(_)
pow2_mod_1000(k) == IF k = 0 THEN 1 ELSE (2 * pow2_mod_1000(k - 1)) % 1000

\* The e with 2^e <= num / den < 2^(e + 1), for num >= den.
RECURSIVE floor_log2(_, _)
floor_log2(num, den) ==
    IF num < 2 * den THEN 0 ELSE 1 + floor_log2(num, 2 * den)

\* The e with 2^(-e) <= num / den < 2^(1 - e), for 0 < num < den.
RECURSIVE ceil_log2_inv(_, _)
ceil_log2_inv(num, den) ==
    IF num >= den THEN 0 ELSE 1 + ceil_log2_inv(2 * num, den)

\* The binary places of the float v / 1000, v > 0: a float has 53
\* significant bits, so the float nearest to v / 1000 is m / 2^k with m the
\* integer nearest to v * 2^k / 1000.
float_places(v) ==
    IF v >= 1000 THEN 52 - floor_log2(v, 1000)
    ELSE 52 + ceil_log2_inv(v, 1000)

\* (v * 2^k) mod 1000, k the binary places of v / 1000: 0 when the float
\* v / 1000 is exact, below 500 when the float lies below v / 1000 and
\* above 500 when it lies above (500 itself does not occur: 2^k is a
\* multiple of 8).
float_remainder(v) == ((v % 1000) * pow2_mod_1000(float_places(v))) % 1000

\* round(v / 1000, ndigits), v an integer not below 0: the float v / 1000
\* rounded to the nearest number of ndigits decimals.  When v / 1000 is
\* the midpoint of two such numbers, the float decides: above the
\* midpoint it is rounded up, below it down, and an exact midpoint goes to
\* the even neighbour.
py_round_milli(v, ndigits) ==
    LET q == pow10(3 - ndigits)
        lo == v \div q
        rem == v % q
        r == float_remainder(v)
        up == \/ 2 * rem > q
              \/ /\ 2 * rem = q
                 /\ IF r = 0 THEN lo % 2 = 1 ELSE r > 500
    IN Rat(IF up THEN lo + 1 ELSE lo, pow10(ndigits))

\* rt.get(key, default), rt a dict.
rt_get(rt, key, default) ==
    IF dict_has(rt, key) THEN dict_get(rt, key) ELSE default

\* The mutation of one field: the base-unit key is looked up first.
energy_field_base_first(rt, milli_key, base_key, ndigits) ==
    LET raw == rt_get(rt, base_key, rt_get(rt, milli_key, {}))
    IN IF raw # {} /\ dict_has(rt, milli_key) /\ ~ dict_has(rt, base_key)
       THEN {py_round_milli(CHOOSE v \in raw : TRUE, ndigits)}
       ELSE {Rat(v, 1) : v \in raw}

\* One field of the dict branch:
\*   energy[f] = rt.get(milli_key, rt.get(base_key))
\*   if energy[f] is not None and milli_key in rt:
\*       energy[f] = round(energy[f] / 1000, ndigits)
energy_field(rt, milli_key, base_key, ndigits) ==
    LET raw == rt_get(rt, milli_key, rt_get(rt, base_key, {}))
    IN IF raw # {} /\ dict_has(rt, milli_key)
       THEN {py_round_milli(CHOOSE v \in raw : TRUE, ndigits)}
       ELSE {Rat(v, 1) : v \in raw}

\* getattr(rt, attr, None), rt not a dict.
rt_attr(rt, attr) == {Rat(v, 1) : v \in rt_get(rt, attr, {})}

NoEnergy == [power_w |-> {}, voltage_v |-> {}, current_a |-> {},
             total_kwh |-> {}]

\* _get_energy(dev).  dev.has_emeter is {} when the attribute is missing;
\* dev.emeter_realtime raises, or is a dict, or an object with attributes.
_get_energy(d) ==
    LET rt == d.emeter_realtime
    IN IF ~ _safe(d, "has_emeter", FALSE) THEN NoEnergy
       ELSE IF rt.kind = "raises" THEN NoEnergy
       ELSE IF rt.kind = "dict"
       THEN [power_w   |-> energy_field(rt.items, "power_mw", "power", 2),
             voltage_v |-> energy_field(rt.items, "voltage_mv", "voltage", 1),
             current_a |-> energy_field(rt.items, "current_ma", "current", 3),
             total_kwh |-> energy_field(rt.items, "total_wh", "total", 3)]
       ELSE [power_w   |-> rt_attr(rt.items, "power"),
             voltage_v |-> rt_attr(rt.items, "voltage"),
             current_a |-> rt_attr(rt.items, "current"),
             total_kwh |-> rt_attr(rt.items, "total")]

---------------------------------------------------------------------------
(* Discovery: discover_devices.                                            *)

\* _clean_type(raw): raw.replace("DeviceType.", "")
_clean_type(raw) == str_remove(raw, DeviceTypePrefix)

\* if x: for an optional string: neither None nor the empty string.
truthy(opt) == opt # {} /\ opt # {<<>>}

\* The info dict before the energy fields.
\* (model, rssi, brightness and firmware are carried to the output only.)
status_info(ip, s) ==
    [name  |-> _safe(s, "alias", NameUnknown),
     mac   |-> _safe(s, "mac", MacUnknown),
     ip    |-> ip,
     type  |-> _clean_type(_safe(s, "device_type", NameUnknown)),
     is_on |-> s.is_on]

\* info.update(energy): the four energy keys are added to the dict.
info_update(info, energy) ==
    [name  |-> info.name, mac |-> info.mac, ip |-> info.ip,
     type  |-> info.type, is_on |-> info.is_on,
     power_w   |-> energy.power_w, voltage_v |-> energy.voltage_v,
     current_a |-> energy.current_a, total_kwh |-> energy.total_kwh]

\* The info dict discover_devices builds for the session s found at ip.
device_info(ip, s, include_energy) ==
    IF include_energy
    THEN info_update(status_info(ip, s), _get_energy(s))
    ELSE status_info(ip, s)

\* The mutation of the per-device disconnect: it sits in the try block of
\* update(), so a session whose update raised is not disconnected.
device_released_if_updated(r, s) ==
    IF s.update_ok THEN {<<r, s.ip>>} ELSE {}

\* await dev.disconnect() at the end of each iteration of the device loop
\* (an exception of disconnect itself is swallowed).  The handle released.
device_released(r, s) == {<<r, s.ip>>}

\* What the network does during a discovery: with a target_ip whether
\* discover_single returns (reach) and the session it returns (single);
\* without, the dict discover returns (found), or that discover raises
\* (fails).
Env(reach, single, fnd, fails) ==
    [reach |-> reach, single |-> single, found |-> fnd, fails |-> fails]

\* discover_devices(timeout, target_ip, include_energy): round r of the
\* running command.  raised tells that Discover.discover raised, which no
\* except clause of discover_devices catches: nothing is returned then.
discover_devices(r, target_ip, include_energy, env) ==
    LET unicast == truthy(target_ip)
        target == CHOOSE t \in target_ip : TRUE
        raised == ~ unicast /\ env.fails
        fnd == IF raised THEN <<>>
               ELSE IF ~ unicast THEN env.found
               ELSE IF env.reach THEN <<env.single>> ELSE <<>>
        infos == [k \in 1..Len(fnd) |->
                     device_info(fnd[k].ip, fnd[k], include_energy)]
    IN [transport |-> IF unicast THEN <<<<"discover_single", target>>>>
                      ELSE <<<<"discover">>>>,
        raised    |-> raised,
        found     |-> fnd,
        opened    |-> {<<r, fnd[k].ip>> : k \in 1..Len(fnd)},
        released  |-> UNION {device_released(r, fnd[k]) : k \in 1..Len(fnd)},
        faults    |-> (IF unicast /\ ~ env.reach THEN {"discover_single"} ELSE {})
                      \cup (IF raised THEN {"discover"} ELSE {})
                      \cup (IF \E k \in 1..Len(fnd) : ~ fnd[k].update_ok
                            THEN {"update"} ELSE {}),
        output    |-> IF unicast /\ ~ env.reach
                      THEN <<<<"error_reaching", target>>>> ELSE <<>>,
        devices   |-> sorted_devices(infos, "name")]

\* A SIGINT ends a one-shot command where it is.  In main Python raises
\* KeyboardInterrupt at the statement that runs.  Under asyncio.run the
\* first SIGINT cancels the task, which raises CancelledError at the await
\* it is in, and a second one raises KeyboardInterrupt at the statement the
\* task runs.  Neither is an Exception, so no "except Exception" clause
\* catches them.  An interruption point is the statement (stage), the
\* position i in the dict of the session it works on (0 for none) and
\* whether the statement had taken effect when the interruption did
\* (done): the session closed for a disconnect(), the line printed for a
\* print.  An interruption between two statements leaves what the
\* interruption of the second before its effect leaves.
InterruptPoint(stage, i, done) == [stage |-> stage, i |-> i, done |-> done]

\* The interruption points of discover_devices: the discovery call, the
\* report of a unicast discovery that raised, then update() and
\* disconnect() of each session found, in dict order.
round_points(target_ip, env) ==
    LET unicast == truthy(target_ip)
        n == IF unicast THEN (IF env.reach THEN 1 ELSE 0)
             ELSE IF env.fails THEN 0 ELSE Len(env.found)
    IN {InterruptPoint(IF unicast THEN "discover_single" ELSE "discover",
                       0, FALSE)}
       \cup (IF unicast /\ ~ env.reach
             THEN {InterruptPoint("error_reaching", 0, d) : d \in BOOLEAN}
             ELSE {})
       \cup {InterruptPoint("update", i, FALSE) : i \in 1..n}
       \cup {InterruptPoint("disconnect", i, d) : i \in 1..n, d \in BOOLEAN}

\* discover_devices interrupted at the point p of round r: the except
\* clauses of lines 126, 137 and 159 let the interruption through and
\* nothing is returned.  The sessions before p.i were updated and
\* disconnected, the others stay open.
interrupted_round(r, target_ip, env, p) ==
    LET unicast == truthy(target_ip)
        target == CHOOSE t \in target_ip : TRUE
        fnd == IF p.i = 0 THEN <<>>
               ELSE IF unicast THEN <<env.single>> ELSE env.found
        updated == IF p.stage = "disconnect" THEN p.i ELSE p.i - 1
        closed == IF p.stage = "disconnect" /\ p.done THEN p.i ELSE p.i - 1
    IN [transport |-> IF unicast THEN <<<<"discover_single", target>>>>
                      ELSE <<<<"discover">>>>,
        found     |-> fnd,
        opened    |-> {<<r, fnd[k].ip>> : k \in 1..Len(fnd)},
        released  |-> UNION {device_released(r, fnd[k]) : k \in 1..closed},
        faults    |-> (IF p.stage = "error_reaching"
                       THEN {"discover_single"} ELSE {})
                      \cup (IF \E k \in 1..updated : ~ fnd[k].update_ok
                            THEN {"update"} ELSE {}),
        output    |-> IF p.stage = "error_reaching" /\ p.done
                      THEN <<<<"error_reaching", target>>>> ELSE <<>>]

\* The status fields of a record: what csv.DictWriter writes of it when
\* the energy columns are not among its fieldnames (extrasaction="ignore").
status_fields(d) ==
    [name |-> d.name, mac |-> d.mac, ip |-> d.ip, type |-> d.type,
     is_on |-> d.is_on]

\* has_energy = any(d.get("power_w") is not None for d in devices)
has_energy(devs) ==
    \E k \in 1..Len(devs) :
        "power_w" \in DOMAIN devs[k] /\ devs[k].power_w # {}

\* The fields of the record d a csv.DictWriter writes, with or without the
\* energy columns.
csv_fields(d, energy) == IF energy THEN d ELSE status_fields(d)

\* The rows save_running_csv(devices) writes, to the snapshot (which it
\* overwrites) and to the log (to which it appends): one per device, each
\* with the timestamp ts taken once per call; the energy columns are
\* written when a record of the list has a power_w.
csv_rows(ts, devs) ==
    [k \in 1..Len(devs) |-> <<ts, csv_fields(devs[k], has_energy(devs))>>]

\* The writes of save_running_csv(devices): devices.csv is opened, which
\* empties it, and then takes a row per device; scan_log.csv then takes a
\* row per device.
SaveSteps(devs) == (2 * Len(devs)) + 1

\* The two files after the first k writes of save_running_csv(devs), when
\* they held snap and log before: what an interruption of
\* save_running_csv leaves (the with statements close the files).
save_progress(snap, log, ts, devs, k) ==
    LET rows == csv_rows(ts, devs)
        n == Len(devs)
    IN [snapshot |-> IF k = 0 THEN snap
                     ELSE IF k <= n THEN {SubSeq(rows, 1, k - 1)}
                     ELSE {rows},
        log      |-> IF k <= n + 1 THEN log
                     ELSE log \o SubSeq(rows, 1, k - (n + 1))]

\* The content of a text file is the sequence of its lines, headers left
\* out: a line save_running_csv wrote is <<timestamp, fields>>, a line of
\* to_csv_string is <<fields>>, and a JSON text is one line, <<document>>
\* (json.dumps; the timestamp key of the documents is left out).
json_dumps(doc) == << <<doc>> >>

\* json.loads(text) raises unless the text is that of a JSON document.
is_json(text) ==
    /\ Len(text) = 1
    /\ Len(text[1]) = 1
    /\ "devices" \in DOMAIN text[1][1]

\* to_json(devices): the text of a document with the keys timestamp,
\* device_count and devices.
to_json(devs) == json_dumps([device_count |-> Len(devs), devices |-> devs])

\* to_csv_string(devices, energy): a header and one row per device, without
\* a timestamp column.
to_csv_string(devs, energy) ==
    [k \in 1..Len(devs) |-> <<csv_fields(devs[k], energy)>>]

\* The rows save_running_csv writes to devices.csv.
snapshot_rows(ts, devs) == csv_rows(ts, devs)

\* The log after save_running_csv appended to it (the file is opened
\* with "a").
log_after(log, ts, devs) == log \o csv_rows(ts, devs)

\* save_baseline(devices): the text written to baseline.json, of a
\* document with the keys timestamp and devices.
save_baseline(devs) == json_dumps([devices |-> devs])

\* load_baseline(): None when the file is missing, the parsed document
\* otherwise; json.loads raises on a file that holds no JSON text.
load_baseline(file) ==
    LET text == CHOOSE c \in file : TRUE
        raised == file # {} /\ ~ is_json(text)
    IN [raised |-> raised,
        bl |-> IF file = {} \/ raised THEN {} ELSE {text[1][1]}]

\* The baseline file after main's baseline branch discovered devs: it is
\* left as it was when devs is empty (exit 1), and save_baseline(devs)
\* overwrites it otherwise.
baseline_after(old, devs) ==
    IF devs = <<>> THEN old ELSE {save_baseline(devs)}

---------------------------------------------------------------------------
(* Device control: _find_device and control_device.                        *)

\* len(parts) == 4 and all(p.isdigit() for p in parts), parts the
\* identifier split at the dots.
is_ip_literal(name_or_ip) ==
    LET parts == split_dot(name_or_ip)
    IN Len(parts) = 4 /\ \A i \in 1..Len(parts) : isdigit(parts[i])

\* The mutation of the address branch: a failure of update() is swallowed,
\* as it is in the name branch, and the session is returned.
find_by_ip_swallow_update(name_or_ip, reach, s) ==
    LET handle == <<0, name_or_ip>>
    IN [transport |-> <<<<"discover_single", name_or_ip>>>>,
        matches   |-> <<>>,
        dev       |-> IF reach THEN {s} ELSE {},
        opened    |-> IF reach THEN {handle} ELSE {},
        released  |-> {},
        faults    |-> IF ~ reach THEN {"discover_single"}
                      ELSE IF ~ s.update_ok THEN {"update"} ELSE {},
        output    |-> IF reach THEN <<>>
                      ELSE <<<<"could_not_reach", name_or_ip>>>>]

\* The address branch of _find_device: discover_single, update, return dev;
\* any exception prints "Could not reach" and returns None.  reach tells
\* whether discover_single returned the session s.
find_by_ip(name_or_ip, reach, s) ==
    LET handle == <<0, name_or_ip>>
    IN [transport |-> <<<<"discover_single", name_or_ip>>>>,
        matches   |-> <<>>,
        dev       |-> IF reach /\ s.update_ok THEN {s} ELSE {},
        opened    |-> IF reach THEN {handle} ELSE {},
        released  |-> {},
        faults    |-> IF ~ reach THEN {"discover_single"}
                      ELSE IF ~ s.update_ok THEN {"update"} ELSE {},
        output    |-> IF reach /\ s.update_ok THEN <<>>
                      ELSE <<<<"could_not_reach", name_or_ip>>>>]

\* The match loop: every session is updated (a failure is swallowed) and
\* those whose lower-cased alias (or "") contains the lower-cased needle
\* are collected as (ip, dev), in dict order.
name_matches(fnd, name_or_ip) ==
    LET needle == lower(name_or_ip)
        sel == SelectSeq(fnd,
                   LAMBDA d : str_in(needle, lower(_safe(d, "alias", <<>>))))
    IN [k \in 1..Len(sel) |-> <<sel[k].ip, sel[k]>>]

\* The mutation of the disconnect loop: it stops after the first session
\* it disconnects.
disconnect_non_matches_first(fnd, ms) ==
    LET non == {j \in 1..Len(fnd) :
                   ~ \E k \in 1..Len(ms) : fnd[j].ip = ms[k][1]}
    IN {<<0, fnd[i].ip>> : i \in {j \in non : \A k \in non : j <= k}}

\* "Disconnect non-matches": disconnect() on every session whose ip is not
\* the ip of a match.  The handles disconnected.
disconnect_non_matches(fnd, ms) ==
    {<<0, fnd[i].ip>> : i \in {j \in 1..Len(fnd) :
          ~ \E k \in 1..Len(ms) : fnd[j].ip = ms[k][1]}}

\* The mutation of the decision: several matches return the first one.
name_result_first(name_or_ip, ms) ==
    IF ms = <<>>
    THEN [dev |-> {}, released |-> {},
          output |-> <<<<"no_device_matching", name_or_ip>>>>]
    ELSE [dev |-> {ms[1][2]}, released |-> {}, output |-> <<>>]

\* The decision on the matches: none prints "No device matching" and
\* returns None; several print each candidate (alias, ip), disconnect each
\* and return None; one is returned.
name_result(name_or_ip, ms) ==
    IF ms = <<>>
    THEN [dev |-> {}, released |-> {},
          output |-> <<<<"no_device_matching", name_or_ip>>>>]
    ELSE IF Len(ms) > 1
    THEN [dev |-> {},
          released |-> {<<0, ms[k][1]>> : k \in 1..Len(ms)},
          output |-> <<<<"multiple_devices_match", name_or_ip>>>>
                     \o [k \in 1..Len(ms) |->
                            <<"candidate",
                              _safe(ms[k][2], "alias", NameUnknown), ms[k][1]>>]
                     \o <<<<"be_more_specific">>>>]
    ELSE [dev |-> {ms[1][2]}, released |-> {}, output |-> <<>>]

\* The name branch of _find_device on the dict found that
\* Discover.discover() returned.
find_by_name(name_or_ip, fnd) ==
    LET ms == name_matches(fnd, name_or_ip)
        res == name_result(name_or_ip, ms)
    IN [transport |-> <<<<"discover">>>>,
        matches   |-> ms,
        dev       |-> res.dev,
        opened    |-> {<<0, fnd[i].ip>> : i \in 1..Len(fnd)},
        released  |-> disconnect_non_matches(fnd, ms) \cup res.released,
        faults    |-> IF \E i \in 1..Len(fnd) : ~ fnd[i].update_ok
                      THEN {"update"} ELSE {},
        output    |-> res.output]

\* _find_device(name_or_ip): the address branch for four all-digit parts,
\* the name branch otherwise.  env is what the network does: for the
\* address branch whether discover_single returns (reach) and the session
\* it returns (single), for the name branch the dict discover returns.
_find_device(name_or_ip, env) ==
    IF is_ip_literal(name_or_ip)
    THEN find_by_ip(name_or_ip, env.reach, env.single)
    ELSE find_by_name(name_or_ip, env.found)

\* The sessions _find_device's name branch disconnects, in order: the
\* non-matches, then every match when there are several.
find_disconnects(fnd, ms) ==
    LET non == SelectSeq(fnd, LAMBDA d :
                   ~ \E k \in 1..Len(ms) : d.ip = ms[k][1])
    IN [k \in 1..Len(non) |-> non[k].ip]
       \o (IF Len(ms) > 1 THEN [k \in 1..Len(ms) |-> ms[k][1]] ELSE <<>>)

\* The interruption points of _find_device.  In the address branch:
\* discover_single, update() and the report of the except clause.  In the
\* name branch: discover; update() of each session found and the test of
\* its alias; the disconnect() calls; the decision on the matches and the
\* lines it prints.
find_points(name_or_ip, env) ==
    IF is_ip_literal(name_or_ip)
    THEN {InterruptPoint("discover_single", 0, FALSE)}
         \cup (IF env.reach THEN {InterruptPoint("update", 1, FALSE)} ELSE {})
         \cup (IF ~ env.reach
               THEN {InterruptPoint("could_not_reach", 0, d) : d \in BOOLEAN}
               ELSE IF ~ env.single.update_ok
               THEN {InterruptPoint("could_not_reach", 1, d) : d \in BOOLEAN}
               ELSE {})
    ELSE LET ms == name_matches(env.found, name_or_ip)
             ds == find_disconnects(env.found, ms)
         IN {InterruptPoint("discover", 0, FALSE),
             InterruptPoint("decide", 0, FALSE)}
            \cup {InterruptPoint(st, i, FALSE) :
                     st \in {"update", "match"}, i \in 1..Len(env.found)}
            \cup {InterruptPoint("disconnect", j, d) :
                     j \in 1..Len(ds), d \in BOOLEAN}
            \cup (IF ms = <<>>
                  THEN {InterruptPoint("no_device_matching", 0, TRUE)}
                  ELSE {})
            \cup (IF Len(ms) > 1
                  THEN {InterruptPoint("multiple_devices_match", 0, TRUE),
                        InterruptPoint("be_more_specific", 0, TRUE)}
                  ELSE {})

\* _find_device interrupted at the point p: no except clause catches the
\* interruption, nothing is returned.  In the address branch the
\* session discover_single returned stays open.  In the match loop the
\* matches are those of the sessions whose alias was tested; in the
\* disconnect loops the sessions before p.i were disconnected, and the
\* candidates up to p.i were printed when the loop is that of the several
\* matches.
interrupted_find(name_or_ip, env, p) ==
    IF is_ip_literal(name_or_ip)
    THEN [transport |-> <<<<"discover_single", name_or_ip>>>>,
          found     |-> <<>>,
          matches   |-> <<>>,
          opened    |-> IF p.i = 1 THEN {<<0, name_or_ip>>} ELSE {},
          released  |-> {},
          faults    |-> IF p.stage # "could_not_reach" THEN {}
                        ELSE IF p.i = 1 THEN {"update"}
                        ELSE {"discover_single"},
          output    |-> IF p.stage = "could_not_reach" /\ p.done
                        THEN <<<<"could_not_reach", name_or_ip>>>> ELSE <<>>]
    ELSE LET fnd == IF p.stage = "discover" THEN <<>> ELSE env.found
             updated == IF p.stage = "update" THEN p.i - 1
                        ELSE IF p.stage = "match" THEN p.i ELSE Len(fnd)
             tested == IF p.stage \in {"update", "match"} THEN p.i - 1
                       ELSE Len(fnd)
             ms == name_matches(SubSeq(fnd, 1, tested), name_or_ip)
             ds == find_disconnects(fnd, ms)
             non == Len(ds) - (IF Len(ms) > 1 THEN Len(ms) ELSE 0)
             closed == IF p.stage \in {"update", "match"} THEN 0
                       ELSE IF p.stage = "disconnect"
                       THEN (IF p.done THEN p.i ELSE p.i - 1)
                       ELSE IF p.stage = "be_more_specific" THEN Len(ds)
                       ELSE non
             listed == IF p.stage = "disconnect" /\ p.i > non
                       THEN p.i - non
                       ELSE IF p.stage = "be_more_specific" THEN Len(ms)
                       ELSE 0
             header == listed > 0 \/ p.stage = "multiple_devices_match"
         IN [transport |-> <<<<"discover">>>>,
             found     |-> fnd,
             matches   |-> ms,
             opened    |-> {<<0, fnd[i].ip>> : i \in 1..Len(fnd)},
             released  |-> {<<0, ds[k]>> : k \in 1..closed},
             faults    |-> IF \E i \in 1..updated : ~ fnd[i].update_ok
                           THEN {"update"} ELSE {},
             output    |->
                (IF p.stage = "no_device_matching"
                 THEN <<<<"no_device_matching", name_or_ip>>>> ELSE <<>>)
                \o (IF header
                    THEN <<<<"multiple_devices_match", name_or_ip>>>>
                    ELSE <<>>)
                \o [k \in 1..listed |->
                       <<"candidate",
                         _safe(ms[k][2], "alias", NameUnknown), ms[k][1]>>]
                \o (IF p.stage = "be_more_specific"
                    THEN <<<<"be_more_specific">>>> ELSE <<>>)]

\* The mutation of the toggle test: an unknown state counts as on.
toggle_is_on_unless_off(d) == _safe(d, "is_on", TRUE)

\* _safe(dev, "is_on", False) of the toggle branch.
toggle_is_on(d) == _safe(d, "is_on", FALSE)

\* The power command an action sends to the device d.
power_command(action, d) ==
    IF action = "on" THEN "turn_on"
    ELSE IF action = "off" THEN "turn_off"
    ELSE IF toggle_is_on(d) THEN "turn_off" ELSE "turn_on"

\* The finally clause of control_device: disconnect() on the session,
\* whatever happened in the try block.
control_released(d, power_ok, refresh_ok) == {<<0, d.ip>>}

\* control_device after _find_device returned d (a set: {} for None).
\* power_ok and refresh_ok tell whether the power command and the update()
\* after it return or raise.
control_device(action, d, power_ok, refresh_ok) ==
    IF d = {}
    THEN [sent |-> <<>>, faults |-> {}, released |-> {},
          output |-> <<>>, exit |-> 1]
    ELSE LET s == CHOOSE x \in d : TRUE
             c == power_command(action, s)
             alias == _safe(s, "alias", s.ip)
         IN [sent     |-> IF power_ok THEN <<c, "update">> ELSE <<c>>,
             faults   |-> IF ~ power_ok THEN {c}
                          ELSE IF ~ refresh_ok THEN {"post_update"} ELSE {},
             released |-> control_released(s, power_ok, refresh_ok),
             output   |-> IF power_ok /\ refresh_ok
                          THEN <<<<"ok", alias, c>>>>
                          ELSE <<<<"failed", action, alias>>>>,
             exit     |-> IF power_ok /\ refresh_ok THEN 0 ELSE 1]

\* control_device interrupted after _find_device returned the session d:
\* what it leaves, and the statement it was at (stage).  Before the try
\* block nothing is sent and nothing disconnects the session.  In the try
\* block the except clause does not catch the interruption and the
\* finally clause awaits disconnect(), which is interrupted in its turn or
\* not: the session is left closed or open.  The report of the try block
\* is printed or not yet.
interrupted_control(action, d, power_ok, refresh_ok) ==
    LET s == CHOOSE x \in d : TRUE
        c == power_command(action, s)
        whole == control_device(action, d, power_ok, refresh_ok)
        left == {{}, whole.released}
        reports == {<<>>, whole.output}
    IN {[stage |-> "alias", sent |-> <<>>, faults |-> {}, output |-> <<>>,
         released |-> {}]}
       \cup {[stage |-> "try", sent |-> <<>>, faults |-> {},
               output |-> <<>>, released |-> r] : r \in left}
       \cup {[stage |-> c, sent |-> <<c>>, faults |-> {},
               output |-> <<>>, released |-> r] : r \in left}
       \cup (IF power_ok
             THEN {[stage |-> "post_update", sent |-> <<c, "update">>,
                    faults |-> {}, output |-> <<>>, released |-> r] :
                      r \in left}
             ELSE {})
       \cup {[stage |-> IF o = <<>> THEN "report" ELSE "disconnect",
               sent |-> whole.sent, faults |-> whole.faults,
               output |-> o, released |-> r] :
                 o \in reports, r \in left}

---------------------------------------------------------------------------
(* Commands and environments.                                              *)

AliasOpts == {{}, {NameLa}, {NameLab}, {NameF}}
OnOpts == {{}, {TRUE}, {FALSE}}

\* Identifiers given to on / off / toggle: an address, near-addresses (three
\* parts, an empty part, a letter part) and names.
ControlIdentifiers ==
    { Ip("1"),
      <<"1", "0", ".", "0", ".", "1">>,
      <<"1", "0", ".", ".", "0", ".", "1">>,
      <<"1", "0", ".", "a", ".", "0", ".", "1">>,
      <<"l", "a">>, <<"L", "A">>, <<"a", "b">>, <<"f">>, <<"x">>, <<>> }

\* The files of ~/.kasa_scan, and a file elsewhere.
\* A path is the sequence of its parts; the empty string is <<>>.
DATA_DIR == <<"~", ".kasa_scan">>
DEVICES_CSV == DATA_DIR \o <<"devices.csv">>
SCAN_LOG == DATA_DIR \o <<"scan_log.csv">>
BASELINE_FILE == DATA_DIR \o <<"baseline.json">>
OtherPath == <<"out.txt">>

\* The parsed arguments (what main reads from args, with the defaults of
\* _build_parser and of main's getattr calls).  Absent options are {}.
\* Command gives format, output, energy, timeout and interval their
\* defaults: table, no file, False, 5 and 5.
Command(name, device, target_ip, name_filter, type_filter, sort) ==
    [name |-> name, device |-> device, target_ip |-> target_ip,
     name_filter |-> name_filter, type_filter |-> type_filter, sort |-> sort,
     format |-> "table", output |-> {}, energy |-> FALSE,
     timeout |-> 5, interval |-> 5]

ControlCommands(ids) ==
    {Command(a, id, {}, {}, {}, "name") : a \in {"on", "off", "toggle"}, id \in ids}

\* The power state the device at an address reports when it is found by a
\* broadcast: on at the first address, off at the second, unread elsewhere.
PowerAt(ip) ==
    IF ip = HostPool[1] THEN {TRUE}
    ELSE IF ip = HostPool[2] THEN {FALSE} ELSE {}

\* Sessions of an on / off / toggle command's discovery over addresses H:
\* what the devices' aliases read, an update that raised leaving the alias
\* unread.
ControlSessions(H) ==
    {Session(ip, alias, {}, {}, PowerAt(ip), alias # {}) :
        ip \in H, alias \in AliasOpts}

\* What the network may do during _find_device(name_or_ip).
FindEnvs(name_or_ip, H) ==
    IF is_ip_literal(name_or_ip)
    THEN {[reach |-> r, found |-> <<>>,
           single |-> Session(name_or_ip, alias, {}, {}, on, ok)] :
             r \in BOOLEAN, alias \in AliasOpts \ {{}}, on \in OnOpts,
             ok \in BOOLEAN}
    ELSE {[reach |-> FALSE, single |-> {}, found |-> f] :
             f \in FoundDicts(H, ControlSessions(H))}

\* A SIGINT ended the command at stage in round r: main is left by
\* KeyboardInterrupt (raised at the statement, or by asyncio.run after the
\* task was cancelled), and the interpreter prints the traceback after
\* what was printed (out) and ends with status 130.
KeyboardInterrupt(stage, r, out) ==
    /\ cancel' = {<<stage, r>>}
    /\ output' = Append(out, <<"traceback">>)
    /\ exitCode' = {130}
    /\ pc' = "interrupted"

\* A SIGINT before the command made its first discovery call, in main or
\* at the head of the coroutine asyncio.run runs: nothing was called,
\* written or printed, and the command ends with the traceback and status
\* 130.
InterruptedBeforeDiscovery ==
    /\ KeyboardInterrupt("main", 0, output)
    /\ UNCHANGED <<replies, cmd, found, dev, matches, transport, sent, faults,
                   opened, released, round, devices, baselineFile,
                   snapshotFile, scanLog, diffOut>>

\* dev = await _find_device(name_or_ip, timeout=timeout), the first n
\* addresses being those that may answer.  In the name branch
\* Discover.discover may raise: no except clause catches it and the
\* exception leaves main.  A SIGINT ends the command at the statement it
\* is at.
FindDevice(n) ==
    /\ pc = "start"
    /\ cmd.name \in {"on", "off", "toggle"}
    /\ \/ InterruptedBeforeDiscovery
       \/ \E env \in FindEnvs(cmd.device, Hosts(n)) :
          \E r \in {_find_device(cmd.device, env)} :
             /\ found' = env.found
             /\ dev' = r.dev
             /\ matches' = r.matches
             /\ transport' = r.transport
             /\ opened' = r.opened
             /\ released' = r.released
             /\ faults' = r.faults
             /\ output' = r.output
             /\ pc' = "resolved"
             /\ UNCHANGED <<exitCode, cancel>>
             /\ UNCHANGED <<replies, cmd, sent, round, devices, baselineFile,
                            snapshotFile, scanLog, diffOut>>
       \/ /\ ~ is_ip_literal(cmd.device)
          /\ transport' = <<<<"discover">>>>
          /\ faults' = {"discover"}
          /\ output' = <<<<"traceback">>>>
          /\ exitCode' = {1}
          /\ pc' = "crashed"
          /\ UNCHANGED <<found, dev, matches, opened, released, cancel>>
          /\ UNCHANGED <<replies, cmd, sent, round, devices, baselineFile,
                         snapshotFile, scanLog, diffOut>>
       \/ \E env \in FindEnvs(cmd.device, Hosts(n)) :
          \E p \in find_points(cmd.device, env) :
          \E r \in {interrupted_find(cmd.device, env, p)} :
             /\ found' = r.found
             /\ matches' = r.matches
             /\ transport' = r.transport
             /\ opened' = r.opened
             /\ released' = r.released
             /\ faults' = r.faults
             /\ KeyboardInterrupt(p.stage, round, r.output)
             /\ UNCHANGED dev
             /\ UNCHANGED <<replies, cmd, sent, round, devices, baselineFile,
                            snapshotFile, scanLog, diffOut>>

\* The rest of control_device: sys.exit(1) on None, otherwise the power
\* command, the update, the report and the finally clause.  A SIGINT ends
\* the command at the statement it is at.
ControlDevice ==
    /\ pc = "resolved"
    /\ \E power_ok \in BOOLEAN, refresh_ok \in BOOLEAN :
          \/ \E r \in {control_device(cmd.name, dev, power_ok, refresh_ok)} :
                /\ sent' = r.sent
                /\ faults' = faults \cup r.faults
                /\ released' = released \cup r.released
                /\ output' = output \o r.output
                /\ exitCode' = {r.exit}
                /\ pc' = "done"
                /\ UNCHANGED cancel
          \/ /\ dev # {}
             /\ \E r \in interrupted_control(cmd.name, dev, power_ok,
                                              refresh_ok) :
                   /\ sent' = r.sent
                   /\ faults' = faults \cup r.faults
                   /\ released' = released \cup r.released
                   /\ KeyboardInterrupt(r.stage, round, output \o r.output)
          \/ /\ dev = {}
             /\ KeyboardInterrupt("sys_exit", round, output)
             /\ UNCHANGED <<sent, faults, released>>
    /\ UNCHANGED <<replies, cmd, found, dev, matches, transport, opened, round,
                   devices, baselineFile, snapshotFile, scanLog, diffOut>>

---------------------------------------------------------------------------
(* SpecControl: one on / off / toggle command.                             *)

InitControl ==
    /\ pc = "start"
    /\ cmd \in ControlCommands(ControlIdentifiers)
    /\ found = <<>> /\ dev = {} /\ matches = <<>> /\ transport = <<>>
    /\ sent = <<>> /\ faults = {} /\ opened = {} /\ released = {} /\ round = 0
    /\ devices = <<>> /\ baselineFile = {} /\ diffOut = {}
    /\ snapshotFile = {} /\ scanLog = <<>>
    /\ output = <<>> /\ exitCode = {}
    /\ cancel = {} /\ replies = <<>>

NextControl == FindDevice(MaxHosts) \/ ControlDevice

SpecControl == InitControl /\ [][NextControl]_vars

---------------------------------------------------------------------------
(* The commands of main.                                                   *)

\* Identifiers given to on / off / toggle in Spec.
MainIdentifiers == {Ip("1"), <<"l", "a">>, <<"x">>}

\* scan with its filters and sort keys, the other options at their
\* defaults.
FilterCommands ==
    {Command("scan", <<>>, t, n, ty, k) :
        t \in {{}, {Ip("1")}},
        n \in {{}, {<<"l", "A">>}, {<<"x">>}},
        ty \in {{}, {<<"b", "u", "l", "b">>}},
        k \in {"name", "ip"}}

DefaultScan == Command("scan", <<>>, {}, {}, {}, "name")

\* scan -f FORMAT [-o FILE], FILE one of the files of ~/.kasa_scan, a file
\* elsewhere or the empty string.
OutputCommands ==
    {[DefaultScan EXCEPT !.format = f, !.output = o] :
        f \in {"json", "csv"},
        o \in {{}, {<<>>}, {BASELINE_FILE}, {DEVICES_CSV}, {SCAN_LOG},
               {OtherPath}}}
    \cup {[DefaultScan EXCEPT !.output = {BASELINE_FILE}]}

\* scan --energy, also as csv; scan --ip ""; scan -t 1.
OptionCommands ==
    {[DefaultScan EXCEPT !.energy = TRUE],
     [DefaultScan EXCEPT !.energy = TRUE, !.format = "csv"],
     [DefaultScan EXCEPT !.target_ip = {<<>>}],
     [DefaultScan EXCEPT !.timeout = 1]}

ScanCommands == FilterCommands \cup OutputCommands \cup OptionCommands

DefaultWatch == Command("watch", <<>>, {}, {}, {}, "name")

\* watch, watch --energy -i 1.
WatchCommands ==
    {DefaultWatch, [DefaultWatch EXCEPT !.energy = TRUE, !.interval = 1]}

MainCommands ==
    ScanCommands
    \cup ControlCommands(MainIdentifiers)
    \cup WatchCommands
    \cup {Command(n, <<>>, {}, {}, {}, "name") : n \in {"baseline", "diff"}}
    \cup {[Command("baseline", <<>>, {}, {}, {}, "name") EXCEPT !.timeout = 1]}

\* What a plug with metering reports: 1500 mW at 120000 mV.
MeterReading ==
    [kind |-> "dict",
     items |-> <<<<"power_mw", {1500}>>, <<"voltage_mv", {120000}>>>>]

\* A device that answered update(): it reports its alias and mac, and its
\* type goes with its mac.  A device whose update() raised: nothing read,
\* or the values the session holds from the discovery reply.  At the
\* first address, a plug with metering, whose readings are a dict or
\* cannot be read.
MainSessions(H) ==
    {Session(ip, {alias}, {mac},
             IF mac = Mac1 THEN {StrDeviceTypePlug} ELSE {StrDeviceTypeBulb},
             PowerAt(ip), TRUE) :
        ip \in H, alias \in {NameLa, NameF}, mac \in {Mac1, Mac2}}
    \cup {Session(ip, {}, {}, {}, {}, FALSE) : ip \in H}
    \cup {Session(ip, {NameLa}, {Mac1}, {StrDeviceTypePlug}, PowerAt(ip), FALSE) :
             ip \in H}
    \cup {WithMeter(Session(ip, {NameLa}, {Mac1}, {StrDeviceTypePlug},
                            PowerAt(ip), TRUE), rt) :
             ip \in H \cap {HostPool[1]},
             rt \in {MeterReading, [kind |-> "raises", items |-> <<>>]}}

\* No two devices of one round report the same mac.
DistinctMacs(f) ==
    \A i, j \in 1..Len(f) : (i # j /\ f[i].mac # {}) => f[i].mac # f[j].mac

\* The dicts Discover.discover() may return over the addresses H.
FoundEnvs(H) ==
    {Env(FALSE, {}, f, FALSE) :
        f \in {g \in FoundDicts(H, MainSessions(H)) : DistinctMacs(g)}}

\* What the network may do during discover_devices(target_ip): the
\* unicast discovery returns a session or raises; the broadcast returns a
\* dict or raises.
DiscoverEnvs(target_ip, H) ==
    IF truthy(target_ip)
    THEN {Env(r, s, <<>>, FALSE) :
             r \in BOOLEAN, s \in MainSessions(target_ip)}
    ELSE FoundEnvs(H) \cup {Env(FALSE, {}, <<>>, TRUE)}

\* The lists a baseline command can have saved: what discover_devices
\* returns on some answer of the network, when it is not empty.
Baselines(H) ==
    {discover_devices(1, {}, FALSE, env).devices : env \in FoundEnvs(H)}
        \ {<<>>}

\* The list an earlier command found: one bulb.
PriorDevices ==
    discover_devices(1, {}, FALSE,
        Env(FALSE, {}, <<Session(Ip("2"), {NameF}, {Mac2},
                                 {StrDeviceTypeBulb}, {FALSE}, TRUE)>>,
            FALSE)).devices

\* The baseline an earlier baseline command saved.
PriorBaseline == save_baseline(PriorDevices)

\* The rows an earlier scan left in devices.csv and in scan_log.csv.
PriorRows == csv_rows(0, PriorDevices)

\* What earlier scans with -o baseline.json left in the baseline file.
ScanWrittenBaselines ==
    {to_json(PriorDevices), to_csv_string(PriorDevices, FALSE)}

\* One invocation: args = parser.parse_args().  The baseline file is
\* missing or holds what an earlier command left: any baseline, or the
\* text of a scan, for a diff command, PriorBaseline for the other
\* commands.  The snapshot and the log are missing, or hold the rows of
\* an earlier scan when the command is one that writes them.
InitMain ==
    /\ pc = "start"
    /\ cmd \in MainCommands
    /\ baselineFile \in
          IF cmd.name = "diff"
          THEN {{}} \cup {{save_baseline(b)} : b \in Baselines(Hosts(MainHosts))}
                    \cup {{t} : t \in ScanWrittenBaselines}
          ELSE {{}, {PriorBaseline}}
    /\ found = <<>> /\ dev = {} /\ matches = <<>> /\ transport = <<>>
    /\ sent = <<>> /\ faults = {} /\ opened = {} /\ released = {} /\ round = 0
    /\ devices = <<>> /\ diffOut = {}
    /\ \E rows \in IF cmd.name \in {"scan", "watch"}
                    THEN {<<>>, PriorRows} ELSE {<<>>} :
          /\ snapshotFile = IF rows = <<>> THEN {} ELSE {rows}
          /\ scanLog = rows
    /\ output = <<>> /\ exitCode = {}
    /\ cancel = {} /\ replies = <<>>

\* The effects of one discover_devices call on the session bookkeeping.
\* Sessions released in an earlier round are forgotten; sessions still
\* open are kept.
Discovered(r) ==
    /\ found' = r.found
    /\ transport' = r.transport
    /\ opened' = (opened \ released) \cup r.opened
    /\ released' = r.released
    /\ faults' = r.faults

\* An exception leaves main: the interpreter prints the traceback and
\* exits with status 1.
Crashed ==
    /\ output' = Append(output, <<"traceback">>)
    /\ exitCode' = {1}
    /\ pc' = "crashed"

\* asyncio.run(discover_devices(...)) of a scan, baseline or diff command
\* ended by a SIGINT inside discover_devices: main is left by
\* KeyboardInterrupt before anything is filtered, written or printed by
\* main.
RoundInterrupted(n, target_ip) ==
    \E env \in DiscoverEnvs(target_ip, Hosts(n)) :
    \E p \in round_points(target_ip, env) :
    \E r \in {interrupted_round(1, target_ip, env, p)} :
       /\ Discovered(r)
       /\ KeyboardInterrupt(p.stage, 1, output \o r.output)

\* Path(output).write_text(text) as seen from one file of ~/.kasa_scan:
\* the file at path holds text instead of what it held.
write_text(path, text, target, content) ==
    IF target = {path} THEN text ELSE content

\* The devices a scan works on: filtered, and sorted unless by name.
scan_devices(args, discovered) ==
    LET kept == filter_devices(discovered, args.name_filter, args.type_filter)
    IN IF args.sort # "name" THEN sort_devices(kept, args.sort) ELSE kept

\* The text of a scan of format json or csv.
scan_text(args, devs) ==
    IF args.format = "json" THEN to_json(devs)
    ELSE to_csv_string(devs, args.energy)

\* The file a scan writes its text to: the one --output names unless the
\* format is table, none ({}) otherwise.
scan_target(args) ==
    IF args.format # "table" /\ truthy(args.output) THEN args.output ELSE {}

\* The scan command interrupted in main after discover_devices returned
\* discovered (a single SIGINT raises KeyboardInterrupt there): the
\* statement it was at and what the statements before it, and its own
\* writes so far, left in the three files (snap, log and bl before) and
\* printed.  main's devices is the list discover_devices returned until
\* filter_devices returns, then the filtered list until sort_devices
\* returns.  Path.write_text opens the file, which empties it, and then
\* writes the text.
interrupted_scan(args, discovered, snap, log, bl) ==
    IF discovered = <<>>
    THEN {[stage |-> "no_kasa_devices_found", devices |-> <<>>,
           snapshot |-> snap, log |-> log, baseline |-> bl, output |-> o] :
             o \in {<<>>, <<<<"no_kasa_devices_found">>>>}}
    ELSE LET devs == scan_devices(args, discovered)
             text == scan_text(args, devs)
             to == scan_target(args)
             saved == save_progress(snap, log, 1, devs, SaveSteps(devs))
         IN {[stage |-> "filter_devices", devices |-> d,
              snapshot |-> snap, log |-> log, baseline |-> bl,
              output |-> <<>>] :
                d \in {discovered,
                       filter_devices(discovered, args.name_filter,
                                      args.type_filter)}}
            \cup
            {[stage |-> "save_running_csv", devices |-> devs,
              snapshot |-> save_progress(snap, log, 1, devs, k).snapshot,
              log |-> save_progress(snap, log, 1, devs, k).log,
              baseline |-> bl, output |-> <<>>] : k \in 0..SaveSteps(devs)}
            \cup
            (IF args.format = "table"
             THEN {[stage |-> "print_table", devices |-> devs,
                    snapshot |-> saved.snapshot, log |-> saved.log,
                    baseline |-> bl, output |-> <<<<"found", Len(devs)>>>>]}
             ELSE IF to # {}
             THEN {[stage |-> "write_text", devices |-> devs,
                    snapshot |-> write_text(DEVICES_CSV, {w[1]}, to,
                                            saved.snapshot),
                    log |-> write_text(SCAN_LOG, w[1], to, saved.log),
                    baseline |-> write_text(BASELINE_FILE, {w[1]}, to, bl),
                    output |-> w[2]] :
                      w \in {<<<<>>, <<>>>>, <<text, <<>>>>,
                             <<text, <<<<"wrote", Len(devs), to>>>>>>}}
             ELSE {[stage |-> "print", devices |-> devs,
                    snapshot |-> saved.snapshot, log |-> saved.log,
                    baseline |-> bl, output |-> <<<<"text", text>>>>]})

\* The baseline command interrupted in main after discover_devices
\* returned discovered: baseline.json (bl before) is untouched, emptied
\* or written, and the line of save_baseline is printed or not.
interrupted_baseline(discovered, bl) ==
    IF discovered = <<>>
    THEN {[stage |-> "no_devices_found", baseline |-> bl, output |-> o] :
             o \in {<<>>, <<<<"no_devices_found">>>>}}
    ELSE {[stage |-> "save_baseline", baseline |-> w[1], output |-> w[2]] :
             w \in {<<bl, <<>>>>, <<{<<>>}, <<>>>>,
                    <<{save_baseline(discovered)}, <<>>>>,
                    <<{save_baseline(discovered)},
                      <<<<"baseline_saved", Len(discovered)>>>>>>}}

\* The diff command interrupted in main after discover_devices returned
\* discovered: in print_diff before the four lists are built, with the
\* lists built and nothing reported yet, or after the report.
interrupted_diff(discovered, baseline) ==
    IF discovered = <<>>
    THEN {[stage |-> "no_devices_found", diff |-> {}, output |-> o] :
             o \in {<<>>, <<<<"no_devices_found">>>>}}
    ELSE LET d == print_diff(discovered, baseline)
         IN {[stage |-> "print_diff", diff |-> {}, output |-> <<>>]}
            \cup {[stage |-> "print_diff", diff |-> {d}, output |-> o] :
                     o \in {<<>>, IF d.no_changes
                                  THEN <<<<"no_changes_detected">>>>
                                  ELSE <<<<"changes">>>>}}

\* main, cmd == "scan": discover; exit 1 if nothing was found; otherwise
\* filter, sort unless by name, save_running_csv; then the table, or the
\* JSON or CSV text, written to the file --output names or printed.  A
\* SIGINT ends the command at the statement it is at.
CmdScan(n) ==
    /\ pc = "start" /\ cmd.name = "scan"
    /\ \/ InterruptedBeforeDiscovery
       \/ /\ round' = 1
          /\ UNCHANGED <<replies, cmd, dev, matches, sent, diffOut>>
          /\ \/ /\ RoundInterrupted(n, cmd.target_ip)
                /\ UNCHANGED <<devices, snapshotFile, scanLog, baselineFile>>
             \/ \E env \in DiscoverEnvs(cmd.target_ip, Hosts(n)) :
                \E r \in {discover_devices(1, cmd.target_ip, cmd.energy, env)} :
                /\ ~ r.raised
                /\ Discovered(r)
                /\ \E t \in interrupted_scan(cmd, r.devices, snapshotFile, scanLog,
                                             baselineFile) :
                      /\ devices' = t.devices
                      /\ snapshotFile' = t.snapshot
                      /\ scanLog' = t.log
                      /\ baselineFile' = t.baseline
                      /\ KeyboardInterrupt(t.stage, 1, r.output \o t.output)
             \/ \E env \in DiscoverEnvs(cmd.target_ip, Hosts(n)) :
                \E r \in {discover_devices(1, cmd.target_ip, cmd.energy, env)} :
                /\ UNCHANGED cancel
                /\ Discovered(r)
                /\ IF r.raised
                   THEN /\ Crashed
                        /\ UNCHANGED <<devices, snapshotFile, scanLog, baselineFile>>
                   ELSE IF r.devices = <<>>
                   THEN /\ devices' = <<>>
                        /\ output' = r.output \o <<<<"no_kasa_devices_found">>>>
                        /\ exitCode' = {1}
                        /\ pc' = "done"
                        /\ UNCHANGED <<snapshotFile, scanLog, baselineFile>>
                   ELSE \E devs \in {scan_devices(cmd, r.devices)} :
                        \E text \in {scan_text(cmd, devs)} :
                        \E to \in {scan_target(cmd)} :
                           /\ devices' = devs
                           /\ snapshotFile' =
                                 write_text(DEVICES_CSV, {text}, to,
                                            {snapshot_rows(1, devs)})
                           /\ scanLog' =
                                 write_text(SCAN_LOG, text, to,
                                            log_after(scanLog, 1, devs))
                           /\ baselineFile' =
                                 write_text(BASELINE_FILE, {text}, to, baselineFile)
                           /\ output' =
                                 r.output \o
                                 IF cmd.format = "table"
                                 THEN <<<<"found", Len(devs)>>>>
                                 ELSE IF to # {}
                                 THEN <<<<"wrote", Len(devs), to>>>>
                                 ELSE <<<<"text", text>>>>
                           /\ exitCode' = {0}
                           /\ pc' = "done"

\* main, cmd == "baseline": discover; exit 1 if nothing was found;
\* otherwise save_baseline(devices).  A SIGINT ends the command at the
\* statement it is at.
CmdBaseline(n) ==
    /\ pc = "start" /\ cmd.name = "baseline"
    /\ \/ InterruptedBeforeDiscovery
       \/ /\ round' = 1
          /\ UNCHANGED <<replies, cmd, dev, matches, sent, snapshotFile,
                         scanLog, diffOut>>
          /\ \/ /\ RoundInterrupted(n, {})
                /\ UNCHANGED <<devices, baselineFile>>
             \/ \E env \in DiscoverEnvs({}, Hosts(n)) :
                \E r \in {discover_devices(1, {}, FALSE, env)} :
                /\ ~ r.raised
                /\ Discovered(r)
                /\ devices' = r.devices
                /\ \E t \in interrupted_baseline(r.devices, baselineFile) :
                      /\ baselineFile' = t.baseline
                      /\ KeyboardInterrupt(t.stage, 1, t.output)
             \/ \E env \in DiscoverEnvs({}, Hosts(n)) :
                \E r \in {discover_devices(1, {}, FALSE, env)} :
                /\ UNCHANGED cancel
                /\ Discovered(r)
                /\ devices' = r.devices
                /\ baselineFile' = baseline_after(baselineFile, r.devices)
                /\ IF r.raised
                   THEN Crashed
                   ELSE IF r.devices = <<>>
                   THEN /\ output' = <<<<"no_devices_found">>>>
                        /\ exitCode' = {1}
                        /\ pc' = "done"
                   ELSE /\ output' = <<<<"baseline_saved", Len(r.devices)>>>>
                        /\ exitCode' = {0}
                        /\ pc' = "done"

\* main, cmd == "diff", interrupted in load_baseline(), or at the line
\* that reports a missing baseline: nothing was discovered.
DiffInterruptedAtLoad ==
    /\ \/ KeyboardInterrupt("load_baseline", 0, <<>>)
       \/ /\ baselineFile = {}
          /\ KeyboardInterrupt("no_baseline_found", 0,
                               <<<<"no_baseline_found">>>>)
    /\ UNCHANGED <<replies, cmd, found, dev, matches, transport, sent, faults,
                   opened, released, round, devices, baselineFile,
                   snapshotFile, scanLog, diffOut>>

\* main, cmd == "diff" without a baseline file: load_baseline() is None.
CmdDiffNoBaseline ==
    /\ pc = "start" /\ cmd.name = "diff"
    /\ baselineFile = {}
    /\ \/ DiffInterruptedAtLoad
       \/ /\ output' = <<<<"no_baseline_found">>>>
          /\ exitCode' = {1}
          /\ pc' = "done"
          /\ UNCHANGED <<cancel, replies, cmd, found, dev, matches, transport,
                         sent, faults, opened, released, round, devices,
                         baselineFile, snapshotFile, scanLog, diffOut>>

\* main, cmd == "diff" with a baseline file that holds no JSON text:
\* load_baseline() raises.
CmdDiffBadBaseline ==
    /\ pc = "start" /\ cmd.name = "diff"
    /\ baselineFile # {}
    /\ load_baseline(baselineFile).raised
    /\ \/ DiffInterruptedAtLoad
       \/ /\ Crashed
          /\ UNCHANGED <<cancel, replies, cmd, found, dev, matches, transport,
                         sent, faults, opened, released, round, devices,
                         baselineFile, snapshotFile, scanLog, diffOut>>

\* main, cmd == "diff" with a baseline: discover; exit 1 if nothing was
\* found; otherwise print_diff(devices, bl).  A SIGINT ends the command at
\* the statement it is at.
CmdDiff(n) ==
    /\ pc = "start" /\ cmd.name = "diff"
    /\ baselineFile # {}
    /\ ~ load_baseline(baselineFile).raised
    /\ \/ DiffInterruptedAtLoad
       \/ /\ RoundInterrupted(n, {})
          /\ round' = 1
          /\ UNCHANGED <<replies, cmd, dev, matches, sent, baselineFile,
                         snapshotFile, scanLog, devices, diffOut>>
       \/ \E env \in DiscoverEnvs({}, Hosts(n)) :
          \E r \in {discover_devices(1, {}, FALSE, env)} :
          /\ ~ r.raised
          /\ Discovered(r)
          /\ devices' = r.devices
          /\ \E t \in interrupted_diff(
                         r.devices,
                         CHOOSE b \in load_baseline(baselineFile).bl : TRUE) :
                /\ diffOut' = t.diff
                /\ KeyboardInterrupt(t.stage, 1, t.output)
          /\ round' = 1
          /\ UNCHANGED <<replies, cmd, dev, matches, sent, baselineFile,
                         snapshotFile, scanLog>>
       \/ \E env \in DiscoverEnvs({}, Hosts(n)) :
          \E r \in {discover_devices(1, {}, FALSE, env)} :
          /\ UNCHANGED cancel
          /\ Discovered(r)
          /\ devices' = r.devices
          /\ IF r.raised
             THEN Crashed /\ diffOut' = {}
             ELSE IF r.devices = <<>>
             THEN /\ output' = <<<<"no_devices_found">>>>
                  /\ exitCode' = {1}
                  /\ diffOut' = {}
                  /\ pc' = "done"
             ELSE \E d \in {print_diff(r.devices,
                               CHOOSE b \in load_baseline(baselineFile).bl :
                                  TRUE)} :
                  /\ diffOut' = {d}
                  /\ output' = IF d.no_changes
                               THEN <<<<"no_changes_detected">>>>
                               ELSE <<<<"changes">>>>
                  /\ exitCode' = {0}
                  /\ pc' = "done"
          /\ round' = 1
          /\ UNCHANGED <<replies, cmd, dev, matches, sent, baselineFile,
                         snapshotFile, scanLog>>

---------------------------------------------------------------------------
(* The raw scan: discover_kasa_devices (src/kasa_basic_scan.py).           *)
(*                                                                         *)
(* bytes are sequences of numbers 0..255.  A parsed JSON value carries its *)
(* Python type: a dict holds its items as <<key, value>> pairs, a str its  *)
(* characters; keys are strs.  The alias and mac of a raw record are the   *)
(* parsed values as they came.                                             *)

\* Longest run of datagrams recvfrom returns in one raw scan.
MaxReplies == 2

\* Number of hosts that may answer the probes of a raw scan.
RawHosts == 1

PyDict(items) == [kind |-> "dict", items |-> items]
PyStr(s) == [kind |-> "str", s |-> s]
\* The empty list, and a number.
PyList == [kind |-> "list"]
PyInt == [kind |-> "int"]

KeySystem == <<"s", "y", "s", "t", "e", "m">>
KeyGetSysinfo == <<"g", "e", "t", "_", "s", "y", "s", "i", "n", "f", "o">>
KeyResult == <<"r", "e", "s", "u", "l", "t">>
KeyAlias == <<"a", "l", "i", "a", "s">>
KeyDeviceAlias == <<"d", "e", "v", "i", "c", "e", "_">> \o KeyAlias
KeyMac == <<"m", "a", "c">>

\* {"system":{"get_sysinfo":{"alias":"La","mac":"M1"}}}
TextLegacyFull ==
    <<123, 34, 115, 121, 115, 116, 101, 109, 34, 58, 123, 34, 103, 101,
      116, 95, 115, 121, 115, 105, 110, 102, 111, 34, 58, 123, 34, 97, 108,
      105, 97, 115, 34, 58, 34, 76, 97, 34, 44, 34, 109, 97, 99, 34, 58,
      34, 77, 49, 34, 125, 125, 125>>

\* {"system":{"get_sysinfo":{}}}
TextLegacyBare ==
    <<123, 34, 115, 121, 115, 116, 101, 109, 34, 58, 123, 34, 103, 101,
      116, 95, 115, 121, 115, 105, 110, 102, 111, 34, 58, 123, 125, 125,
      125>>

\* {"result":{"device_alias":"F","mac":"M2"}}
TextResultFull ==
    <<123, 34, 114, 101, 115, 117, 108, 116, 34, 58, 123, 34, 100, 101,
      118, 105, 99, 101, 95, 97, 108, 105, 97, 115, 34, 58, 34, 70, 34, 44,
      34, 109, 97, 99, 34, 58, 34, 77, 50, 34, 125, 125>>

\* {"result":1}
TextResultInt ==
    <<123, 34, 114, 101, 115, 117, 108, 116, 34, 58, 49, 125>>

\* {"system":1}
TextSystemInt ==
    <<123, 34, 115, 121, 115, 116, 101, 109, 34, 58, 49, 125>>

\* []
TextList ==
    <<91, 93>>

\* {"system":"get_sysinfo"}
TextSystemStr ==
    <<123, 34, 115, 121, 115, 116, 101, 109, 34, 58, 34, 103, 101, 116, 95,
      115, 121, 115, 105, 110, 102, 111, 34, 125>>

\* {"system":"x"}
TextSystemOther ==
    <<123, 34, 115, 121, 115, 116, 101, 109, 34, 58, 34, 120, 34, 125>>

\* "system"
TextStrSystem ==
    <<34, 115, 121, 115, 116, 101, 109, 34>>

\* {"result":"x"}
TextResultStr ==
    <<123, 34, 114, 101, 115, 117, 108, 116, 34, 58, 34, 120, 34, 125>>

\* "result"
TextStrResult ==
    <<34, 114, 101, 115, 117, 108, 116, 34>>

\* json.loads on the byte strings of the model: the value of a JSON text
\* above, {} (it raises) on every other byte string.
JsonTexts ==
    <<<<TextLegacyFull,
        PyDict(<<<<<<"s", "y", "s", "t", "e", "m">>, PyDict(<<<<<<"g", "e",
        "t", "_", "s", "y", "s", "i", "n", "f", "o">>, PyDict(<<<<<<"a",
        "l", "i", "a", "s">>, PyStr(<<"L", "a">>)>>, <<<<"m", "a", "c">>,
        PyStr(<<"M", "1">>)>>>>)>>>>)>>>>)>>,
      <<TextLegacyBare,
        PyDict(<<<<<<"s", "y", "s", "t", "e", "m">>, PyDict(<<<<<<"g", "e",
        "t", "_", "s", "y", "s", "i", "n", "f", "o">>,
        PyDict(<<>>)>>>>)>>>>)>>,
      <<TextResultFull,
        PyDict(<<<<<<"r", "e", "s", "u", "l", "t">>, PyDict(<<<<<<"d", "e",
        "v", "i", "c", "e", "_", "a", "l", "i", "a", "s">>,
        PyStr(<<"F">>)>>, <<<<"m", "a", "c">>, PyStr(<<"M",
        "2">>)>>>>)>>>>)>>,
      <<TextResultInt,
        PyDict(<<<<<<"r", "e", "s", "u", "l", "t">>, PyInt>>>>)>>,
      <<TextSystemInt,
        PyDict(<<<<<<"s", "y", "s", "t", "e", "m">>, PyInt>>>>)>>,
      <<TextList,
        PyList>>,
      <<TextSystemStr,
        PyDict(<<<<<<"s", "y", "s", "t", "e", "m">>, PyStr(<<"g", "e", "t",
        "_", "s", "y", "s", "i", "n", "f", "o">>)>>>>)>>,
      <<TextSystemOther,
        PyDict(<<<<<<"s", "y", "s", "t", "e", "m">>, PyStr(<<"x">>)>>>>)>>,
      <<TextStrSystem,
        PyStr(<<"s", "y", "s", "t", "e", "m">>)>>,
      <<TextResultStr,
        PyDict(<<<<<<"r", "e", "s", "u", "l", "t">>, PyStr(<<"x">>)>>>>)>>,
      <<TextStrResult,
        PyStr(<<"r", "e", "s", "u", "l", "t">>)>>>>

\* the legacy reply of a device: TextLegacyFull under XOR 0xAB
DatagramLegacyFull ==
    <<208, 137, 216, 210, 216, 223, 206, 198, 137, 145, 208, 137, 204, 206,
      223, 244, 216, 210, 216, 194, 197, 205, 196, 137, 145, 208, 137, 202,
      199, 194, 202, 216, 137, 145, 137, 231, 202, 137, 135, 137, 198, 202,
      200, 137, 145, 137, 230, 154, 137, 214, 214, 214>>

\* a legacy reply without alias and mac: TextLegacyBare under XOR 0xAB
DatagramLegacyBare ==
    <<208, 137, 216, 210, 216, 223, 206, 198, 137, 145, 208, 137, 204, 206,
      223, 244, 216, 210, 216, 194, 197, 205, 196, 137, 145, 208, 214, 214,
      214>>

\* TextResultFull under XOR 0xAB: JSON under the legacy decoding, no system
DatagramXorResult ==
    <<208, 137, 217, 206, 216, 222, 199, 223, 137, 145, 208, 137, 207, 206,
      221, 194, 200, 206, 244, 202, 199, 194, 202, 216, 137, 145, 137, 237,
      137, 135, 137, 198, 202, 200, 137, 145, 137, 230, 153, 137, 214, 214>>

\* TextSystemInt under XOR 0xAB: system is a number
DatagramXorSystemInt ==
    <<208, 137, 216, 210, 216, 223, 206, 198, 137, 145, 154, 214>>

\* TextSystemStr under XOR 0xAB: system is a string that contains
\* get_sysinfo
DatagramXorSystemStr ==
    <<208, 137, 216, 210, 216, 223, 206, 198, 137, 145, 137, 204, 206, 223,
      244, 216, 210, 216, 194, 197, 205, 196, 137, 214>>

\* TextSystemOther under XOR 0xAB: system is a string without get_sysinfo
DatagramXorSystemOther ==
    <<208, 137, 216, 210, 216, 223, 206, 198, 137, 145, 137, 211, 137, 214>>

\* TextStrSystem under XOR 0xAB: the reply is a string that contains system
DatagramXorStrSystem ==
    <<137, 216, 210, 216, 223, 206, 198, 137>>

\* the one byte {: JSON under neither decoding
DatagramGarbage ==
    <<123>>

\* The key of the legacy scheme.
XorKey == 171

\* a ^ b on non-negative integers.
RECURSIVE bit_xor(_, _)
bit_xor(a, b) ==
    IF a = 0 /\ b = 0 THEN 0
    ELSE (((a % 2) + (b % 2)) % 2) + (2 * bit_xor(a \div 2, b \div 2))

\* bytes([b ^ 0xAB for b in data])
xor_bytes(data) == [i \in 1..Len(data) |-> bit_xor(data[i], XorKey)]

\* json.loads(b): {value}, or {} when it raises.
json_loads(b) ==
    {JsonTexts[i][2] : i \in {j \in 1..Len(JsonTexts) : JsonTexts[j][1] = b}}

\* key in v, key a str: {TRUE} or {FALSE}, or {} when it raises.  A dict is
\* asked for the key, a str for the substring, the empty list holds
\* nothing, and a number raises TypeError.
py_in(key, v) ==
    IF v.kind = "dict" THEN {dict_has(v.items, key)}
    ELSE IF v.kind = "str" THEN {str_in(key, v.s)}
    ELSE IF v.kind = "list" THEN {FALSE}
    ELSE {}

\* v[key], key a str: {value}, or {} when it raises (KeyError on a dict
\* without the key, TypeError on a str, a list or a number).
py_getitem(v, key) ==
    IF v.kind = "dict" /\ dict_has(v.items, key)
    THEN {dict_get(v.items, key)}
    ELSE {}

\* v.get(key, default): {value}, or {} when it raises (v is no dict).
py_get(v, key, default) ==
    IF v.kind # "dict" THEN {}
    ELSE IF dict_has(v.items, key) THEN {dict_get(v.items, key)}
    ELSE {default}

\* The record appended for a reply from ip.
raw_record(ip, mac, alias) ==
    [ip |-> ip, mac |-> CHOOSE m \in mac : TRUE,
     alias |-> CHOOSE a \in alias : TRUE]

\* The first try block: the datagram under XOR 0xAB as JSON with
\* system.get_sysinfo.  raised tells whether the block raised.
legacy_record(ip, data) ==
    LET info == json_loads(xor_bytes(data))
        i == CHOOSE v \in info : TRUE
        has_system == py_in(KeySystem, i)
        system == py_getitem(i, KeySystem)
        sys == CHOOSE v \in system : TRUE
        has_sysinfo == py_in(KeyGetSysinfo, sys)
        sysinfo == py_getitem(sys, KeyGetSysinfo)
        si == CHOOSE v \in sysinfo : TRUE
        alias == py_get(si, KeyAlias, PyStr(NameUnknown))
        mac == py_get(si, KeyMac, PyStr(NameUnknown))
    IN IF info = {} \/ has_system = {} THEN [raised |-> TRUE, records |-> <<>>]
       ELSE IF has_system = {FALSE} THEN [raised |-> FALSE, records |-> <<>>]
       ELSE IF system = {} \/ has_sysinfo = {}
       THEN [raised |-> TRUE, records |-> <<>>]
       ELSE IF has_sysinfo = {FALSE} THEN [raised |-> FALSE, records |-> <<>>]
       ELSE IF sysinfo = {} \/ alias = {} \/ mac = {}
       THEN [raised |-> TRUE, records |-> <<>>]
       ELSE [raised |-> FALSE, records |-> <<raw_record(ip, mac, alias)>>]

\* The inner try block: the datagram as plain JSON with a result.
plain_record(ip, data) ==
    LET info == json_loads(data)
        i == CHOOSE v \in info : TRUE
        has_result == py_in(KeyResult, i)
        result == py_getitem(i, KeyResult)
        res == CHOOSE v \in result : TRUE
        alias == py_get(res, KeyDeviceAlias, PyStr(NameUnknown))
        mac == py_get(res, KeyMac, PyStr(NameUnknown))
    IN IF info = {} \/ has_result = {} THEN [raised |-> TRUE, records |-> <<>>]
       ELSE IF has_result = {FALSE} THEN [raised |-> FALSE, records |-> <<>>]
       ELSE IF result = {} \/ alias = {} \/ mac = {}
       THEN [raised |-> TRUE, records |-> <<>>]
       ELSE [raised |-> FALSE, records |-> <<raw_record(ip, mac, alias)>>]

\* The mutation of the reply handling: the inner try has no except clause,
\* so a datagram that fails both decodings raises out of the receive loop.
reply_outcome_unguarded(ip, data) ==
    LET l == legacy_record(ip, data)
        p == plain_record(ip, data)
    IN [records |-> IF l.raised THEN p.records ELSE l.records,
        raised  |-> l.raised /\ p.raised]

\* What one datagram does to the receive loop: the records it appends, and
\* whether an exception leaves the loop (the inner except clause passes).
reply_outcome(ip, data) ==
    LET l == legacy_record(ip, data)
        p == plain_record(ip, data)
    IN [records |-> IF l.raised THEN p.records ELSE l.records,
        raised  |-> FALSE]

ports == <<9999, 20002>>
messages == <<"get_sysinfo", "binary">>

\* The probes in the order of the two for loops.
Probes == [p \in 1..(Len(ports) * Len(messages)) |->
             <<ports[((p - 1) \div Len(messages)) + 1],
               messages[((p - 1) % Len(messages)) + 1]>>]

\* The datagrams a host may send.
Datagrams ==
    {DatagramLegacyFull, DatagramLegacyBare, DatagramXorResult,
     DatagramXorSystemInt, DatagramXorSystemStr, DatagramXorSystemOther,
     DatagramXorStrSystem, DatagramGarbage,
     TextResultFull, TextResultInt, TextLegacyFull, TextResultStr,
     TextStrResult}

TheSocket == <<0, "sock">>

\* The next iteration of the for loops, or sock.close() after the last.
NextProbe ==
    IF round < Len(Probes)
    THEN round' = round + 1 /\ pc' = "raw_send"
    ELSE round' = round /\ pc' = "raw_close"

\* sock.sendto(msg, ('255.255.255.255', port)): it returns, or it raises
\* and the outer except clause continues with the next probe.  sent is the
\* probe last sent.
RawSend ==
    /\ pc = "raw_send"
    /\ \E ok \in BOOLEAN :
          IF ok
          THEN /\ sent' = <<Probes[round]>>
               /\ pc' = "raw_recv"
               /\ UNCHANGED <<round, faults>>
          ELSE /\ faults' = faults \cup {"sendto"}
               /\ NextProbe
               /\ UNCHANGED sent
    /\ UNCHANGED <<cancel, replies, cmd, found, dev, matches, transport, opened,
                   released, devices, baselineFile, snapshotFile, scanLog,
                   diffOut, output, exitCode>>

\* data, addr = sock.recvfrom(1024) returns a datagram from one of the
\* first n addresses, and the datagram is parsed.
RawRecv(n) ==
    /\ pc = "raw_recv"
    /\ Len(replies) < MaxReplies
    /\ \E ip \in Hosts(n), data \in Datagrams :
       \E r \in {reply_outcome(ip, data)} :
          /\ replies' = Append(replies, <<round, ip, data>>)
          /\ devices' = devices \o r.records
          /\ IF r.raised THEN NextProbe ELSE UNCHANGED <<pc, round>>
    /\ UNCHANGED <<cancel, cmd, found, dev, matches, transport, sent, faults,
                   opened, released, baselineFile, snapshotFile, scanLog,
                   diffOut, output, exitCode>>

\* The receive loop ends: socket.timeout, another exception of recvfrom, or
\* the two seconds of the window are over.
RawWindowEnd ==
    /\ pc = "raw_recv"
    /\ NextProbe
    /\ UNCHANGED <<cancel, replies, cmd, found, dev, matches, transport, sent,
                   faults, opened, released, devices, baselineFile,
                   snapshotFile, scanLog, diffOut, output, exitCode>>

\* sock.close(); return devices
RawClose ==
    /\ pc = "raw_close"
    /\ released' = released \cup {TheSocket}
    /\ pc' = "raw_done"
    /\ UNCHANGED <<cancel, replies, cmd, found, dev, matches, transport, sent,
                   faults, opened, round, devices, baselineFile,
                   snapshotFile, scanLog, diffOut, output, exitCode>>

InitRaw ==
    /\ pc = "raw_send"
    /\ cmd = Command("raw_scan", <<>>, {}, {}, {}, "name")
    /\ found = <<>> /\ dev = {} /\ matches = <<>> /\ transport = <<>>
    /\ sent = <<>> /\ faults = {} /\ opened = {TheSocket} /\ released = {}
    /\ round = 1
    /\ devices = <<>> /\ baselineFile = {} /\ diffOut = {}
    /\ snapshotFile = {} /\ scanLog = <<>>
    /\ output = <<>> /\ exitCode = {}
    /\ cancel = {} /\ replies = <<>>

NextRaw == RawSend \/ RawRecv(RawHosts) \/ RawWindowEnd \/ RawClose

SpecRaw == InitRaw /\ [][NextRaw]_vars

---------------------------------------------------------------------------
(* SpecWatch: watch_loop step by step, with discover_devices unfolded at   *)
(* its awaits, and the cancellation of the task.                           *)
(*                                                                         *)
(* asyncio.run cancels the main task on SIGINT; task.cancel() makes the    *)
(* task raise CancelledError at the await it is suspended in or, when the  *)
(* request arrives while the task runs synchronous code, at the next await *)
(* it reaches.  CancelledError is no Exception, so the except clauses of   *)
(* discover_devices let it through to the except clause of watch_loop.     *)
(* A second SIGINT raises KeyboardInterrupt: in the statement the task     *)
(* runs, where the except clause of watch_loop catches it too, or in the   *)
(* event loop while the task is suspended.  Either way asyncio.run raises  *)
(* KeyboardInterrupt in the end and the status is 130.                     *)
(*                                                                         *)
(* pc is the statement the task is at:                                     *)
(*   w_discover    await Discover.discover(timeout)          (line 130)    *)
(*   w_update      await dev.update() of the next device     (line 136)    *)
(*   w_disconnect  await dev.disconnect() of that device     (line 158)    *)
(*   w_render      clear, "Found n device(s)", print_table   (461-466)     *)
(*   w_snapshot    save_running_csv: the snapshot            (338-342)     *)
(*   w_log         save_running_csv: the log                 (345-351)     *)
(*   w_sleep       await asyncio.sleep(interval)             (line 468)    *)
(*   stopped       the except clause ran: "Stopped."         (469-470)     *)
(*   crashed       an exception left watch_loop                            *)

WatchAwaits == {"w_discover", "w_update", "w_disconnect", "w_sleep"}

\* The statements of the loop that are not awaits.
WatchSync == {"w_render", "w_snapshot", "w_log"}

WatchRunning == WatchAwaits \cup WatchSync

\* Whether the task at statement p raises CancelledError there, c being the
\* cancellation requested so far.
cancel_raises(p, c) == c # {} /\ p \in WatchAwaits

\* The first SIGINT, or task.cancel(): the cancellation is requested once.
Cancel ==
    /\ pc \in WatchRunning
    /\ cancel = {}
    /\ cancel' = {<<pc, round>>}
    /\ UNCHANGED <<replies, pc, cmd, found, dev, matches, transport, sent,
                   faults, opened, released, round, devices, baselineFile,
                   snapshotFile, scanLog, diffOut, output, exitCode>>

\* except (KeyboardInterrupt, asyncio.CancelledError): print("\nStopped.")
\* for the CancelledError raised at an await.  A disconnect() that is
\* cancelled had closed its session or not.  watch_loop returns and the
\* command ends with status 0, unless a second SIGINT arrived: asyncio.run
\* then raises KeyboardInterrupt, after the line was printed or in its
\* place, and the command ends with the traceback and status 130.
Stopped ==
    /\ cancel_raises(pc, cancel)
    /\ pc' = "stopped"
    /\ \/ UNCHANGED released
       \/ /\ pc = "w_disconnect"
          /\ released' = released
                            \cup device_released(round, found[Len(devices)])
    /\ \/ /\ output' = Append(output, <<"stopped">>)
          /\ exitCode' = {0}
       \/ /\ \E o \in {<<<<"stopped">>>>, <<>>} :
                output' = output \o o \o <<<<"traceback">>>>
          /\ exitCode' = {130}
    /\ UNCHANGED <<cancel, replies, cmd, found, dev, matches, transport,
                   sent, faults, opened, round, devices, baselineFile,
                   snapshotFile, scanLog, diffOut>>

\* The screen after the first k steps of the rendering of round r: the
\* screen is cleared at the first, the two header lines make the second,
\* and each row of the table is one more.
render_progress(out, r, devs, k) ==
    IF k = 0 THEN out
    ELSE IF k = 1 THEN <<>>
    ELSE IF k < Len(devs) + 2
    THEN <<<<"found_partly", r, Len(devs), SubSeq(devs, 1, k - 2)>>>>
    ELSE <<<<"found", r, devs>>>>

\* A second SIGINT while the task runs a statement that is not an await:
\* KeyboardInterrupt is raised there, after some of the steps of the
\* statement, and caught at line 469, which prints "Stopped."; in
\* discover_devices that is after update() returned or raised and before
\* the record of the device is appended (lines 137-155).  The
\* cancellation the first SIGINT requested is still pending, so the task
\* ends cancelled and asyncio.run raises KeyboardInterrupt: the command
\* ends with the traceback and status 130.
WatchKeyboardInterrupt ==
    /\ cancel # {}
    /\ pc \in WatchSync \cup {"w_update"}
    /\ \/ /\ pc = "w_update"
          /\ faults' = IF found[Len(devices) + 1].update_ok THEN faults
                       ELSE faults \cup {"update"}
          /\ output' = output \o <<<<"stopped">>, <<"traceback">>>>
          /\ UNCHANGED <<snapshotFile, scanLog>>
       \/ /\ pc = "w_render"
          /\ \E k \in 0..(Len(devices) + 1) :
                output' = render_progress(output, round, devices, k)
                             \o <<<<"stopped">>, <<"traceback">>>>
          /\ UNCHANGED <<snapshotFile, scanLog, faults>>
       \/ /\ pc = "w_snapshot"
          /\ \E k \in 0..Len(devices) :
                snapshotFile' = save_progress(snapshotFile, scanLog, round,
                                              devices, k).snapshot
          /\ output' = output \o <<<<"stopped">>, <<"traceback">>>>
          /\ UNCHANGED <<scanLog, faults>>
       \/ /\ pc = "w_log"
          /\ \E k \in (Len(devices) + 1)..(SaveSteps(devices) - 1) :
                scanLog' = save_progress(snapshotFile, scanLog, round,
                                         devices, k).log
          /\ output' = output \o <<<<"stopped">>, <<"traceback">>>>
          /\ UNCHANGED <<snapshotFile, faults>>
    /\ pc' = "stopped"
    /\ exitCode' = {130}
    /\ UNCHANGED <<cancel, replies, cmd, found, dev, matches, transport,
                   sent, opened, released, round, devices, baselineFile,
                   diffOut>>

\* found = await Discover.discover(timeout=timeout) returns the dict f, or
\* raises: no except clause of discover_devices or watch_loop catches it.
WatchDiscover(n) ==
    /\ pc = "w_discover"
    /\ ~ cancel_raises(pc, cancel)
    /\ \/ \E env \in FoundEnvs(Hosts(n)) :
            /\ found' = env.found
            /\ opened' = (opened \ released)
                            \cup {<<round, env.found[k].ip>> :
                                     k \in 1..Len(env.found)}
            /\ released' = {}
            /\ devices' = <<>>
            /\ faults' = {}
            /\ pc' = IF env.found = <<>> THEN "w_render" ELSE "w_update"
            /\ UNCHANGED <<output, exitCode>>
       \/ /\ faults' = {"discover"}
          /\ output' = Append(output, <<"traceback">>)
          /\ exitCode' = {1}
          /\ pc' = "crashed"
          /\ UNCHANGED <<found, opened, released, devices>>
    /\ UNCHANGED <<cancel, replies, cmd, dev, matches, transport, sent,
                   round, baselineFile, snapshotFile, scanLog, diffOut>>

\* await dev.update() of the next device returns or raises an Exception,
\* which is passed over; info is built and appended to devices.
WatchUpdate ==
    /\ pc = "w_update"
    /\ ~ cancel_raises(pc, cancel)
    /\ \E s \in {found[Len(devices) + 1]} :
          /\ devices' = Append(devices, device_info(s.ip, s, cmd.energy))
          /\ faults' = IF s.update_ok THEN faults ELSE faults \cup {"update"}
    /\ pc' = "w_disconnect"
    /\ UNCHANGED <<cancel, replies, cmd, found, dev, matches, transport,
                   sent, opened, released, round, baselineFile,
                   snapshotFile, scanLog, diffOut, output, exitCode>>

\* await dev.disconnect() of that device; after the last device
\* discover_devices returns sorted(devices).
WatchDisconnect ==
    /\ pc = "w_disconnect"
    /\ ~ cancel_raises(pc, cancel)
    /\ released' = released \cup device_released(round, found[Len(devices)])
    /\ IF Len(devices) < Len(found)
       THEN pc' = "w_update" /\ UNCHANGED devices
       ELSE pc' = "w_render" /\ devices' = sorted_devices(devices, "name")
    /\ UNCHANGED <<cancel, replies, cmd, found, dev, matches, transport,
                   sent, faults, opened, round, baselineFile, snapshotFile,
                   scanLog, diffOut, output, exitCode>>

\* The screen is cleared and the round is rendered.
WatchRender ==
    /\ pc = "w_render"
    /\ ~ cancel_raises(pc, cancel)
    /\ output' = render_progress(output, round, devices, Len(devices) + 2)
    /\ pc' = IF devices # <<>> THEN "w_snapshot" ELSE "w_sleep"
    /\ UNCHANGED <<cancel, replies, cmd, found, dev, matches, transport,
                   sent, faults, opened, released, round, devices,
                   baselineFile, snapshotFile, scanLog, diffOut, exitCode>>

\* save_running_csv(devices), first file: devices.csv is overwritten.
WatchSnapshot ==
    /\ pc = "w_snapshot"
    /\ ~ cancel_raises(pc, cancel)
    /\ snapshotFile' = save_progress(snapshotFile, scanLog, round, devices,
                                    Len(devices) + 1).snapshot
    /\ pc' = "w_log"
    /\ UNCHANGED <<cancel, replies, cmd, found, dev, matches, transport,
                   sent, faults, opened, released, round, devices,
                   baselineFile, scanLog, diffOut, output, exitCode>>

\* save_running_csv(devices), second file: scan_log.csv is appended to.
WatchLog ==
    /\ pc = "w_log"
    /\ ~ cancel_raises(pc, cancel)
    /\ scanLog' = save_progress(snapshotFile, scanLog, round, devices,
                              SaveSteps(devices)).log
    /\ pc' = "w_sleep"
    /\ UNCHANGED <<cancel, replies, cmd, found, dev, matches, transport,
                   sent, faults, opened, released, round, devices,
                   baselineFile, snapshotFile, diffOut, output, exitCode>>

\* await asyncio.sleep(interval) returns and the next iteration calls
\* discover_devices.
WatchSleep ==
    /\ pc = "w_sleep"
    /\ ~ cancel_raises(pc, cancel)
    /\ round < MaxRounds
    /\ round' = round + 1
    /\ transport' = Append(transport, <<"discover">>)
    /\ pc' = "w_discover"
    /\ UNCHANGED <<cancel, replies, cmd, found, dev, matches, sent, faults,
                   opened, released, devices, baselineFile, snapshotFile,
                   scanLog, diffOut, output, exitCode>>

\* watch_loop entered its loop: the first discover_devices call is made.
InitWatch ==
    /\ pc = "w_discover"
    /\ cmd \in WatchCommands
    /\ found = <<>> /\ dev = {} /\ matches = <<>>
    /\ transport = <<<<"discover">>>>
    /\ sent = <<>> /\ faults = {} /\ opened = {} /\ released = {}
    /\ round = 1
    /\ devices = <<>> /\ baselineFile = {} /\ diffOut = {}
    /\ snapshotFile = {} /\ scanLog = <<>>
    /\ output = <<>> /\ exitCode = {}
    /\ cancel = {} /\ replies = <<>>

NextWatch ==
    \/ Cancel
    \/ Stopped
    \/ WatchKeyboardInterrupt
    \/ WatchDiscover(WatchHosts)
    \/ WatchUpdate
    \/ WatchDisconnect
    \/ WatchRender
    \/ WatchSnapshot
    \/ WatchLog
    \/ WatchSleep

SpecWatch == InitWatch /\ [][NextWatch]_vars

---------------------------------------------------------------------------
(* Spec: one invocation of main, the watch loop step by step.              *)

\* main, cmd == "watch": asyncio.run(watch_loop(...)) enters the loop and
\* makes the first discover_devices call (the banner line is not among the
\* messages output records).  A SIGINT before that call ends the command:
\* in main or at the banner with the traceback alone, inside the try block
\* (a second SIGINT) after the except clause printed "Stopped.".
WatchStart ==
    /\ pc = "start" /\ cmd.name = "watch"
    /\ \/ /\ round' = 1
          /\ transport' = <<<<"discover">>>>
          /\ pc' = "w_discover"
          /\ UNCHANGED <<cancel, replies, cmd, found, dev, matches, sent,
                         faults, opened, released, devices, baselineFile,
                         snapshotFile, scanLog, diffOut, output, exitCode>>
       \/ InterruptedBeforeDiscovery
       \/ /\ cancel' = {<<"watch_loop", 0>>}
          /\ output' = output \o <<<<"stopped">>, <<"traceback">>>>
          /\ exitCode' = {130}
          /\ pc' = "stopped"
          /\ UNCHANGED <<replies, cmd, found, dev, matches, transport, sent,
                         faults, opened, released, round, devices,
                         baselineFile, snapshotFile, scanLog, diffOut>>

Next ==
    \/ CmdScan(MainHosts)
    \/ CmdBaseline(MainHosts)
    \/ CmdDiffNoBaseline
    \/ CmdDiffBadBaseline
    \/ CmdDiff(MainHosts)
    \/ FindDevice(MainHosts)
    \/ ControlDevice
    \/ WatchStart
    \/ NextWatch

Spec == InitMain /\ [][Next]_vars

---------------------------------------------------------------------------
(* SpecEnergy: _get_energy applied to bounded devices.                     *)

\* The dicts holding key with one of the values vals, or not holding it.
Items(key, vals) == {<<>>} \cup {<<<<key, v>>>> : v \in vals}

\* emeter_realtime as a dict: each quantity under its milli-unit key (a
\* number, or null), under its base-unit key, under both or under neither.
RtDicts ==
    {p \o pb \o v \o vb \o c \o cb \o t \o tb :
        p  \in Items("power_mw", {{}, {1500}, {1234}, {1235}, {1245}, {125}}),
        pb \in Items("power", {{2}}),
        v  \in Items("voltage_mv", {{}, {120000}, {120456}, {120250}, {50}}),
        vb \in Items("voltage", {{121}}),
        c  \in Items("current_ma", {{417}}),
        cb \in Items("current", {{3}}),
        t  \in Items("total_wh", {{2345}}),
        tb \in Items("total", {{7}})}

\* emeter_realtime as an object with base-unit attributes.
RtObjects ==
    {p \o v \o c \o t :
        p \in Items("power", {{2}}), v \in Items("voltage", {{121}}),
        c \in Items("current", {{3}}), t \in Items("total", {{7}})}

EnergyDevices ==
    {[has_emeter |-> h, emeter_realtime |-> rt] :
        h \in {{}, {TRUE}, {FALSE}},
        rt \in {[kind |-> "dict", items |-> x] : x \in RtDicts}
               \cup {[kind |-> "object", items |-> x] : x \in RtObjects}
               \cup {[kind |-> "raises", items |-> <<>>]}}

InitEnergy ==
    /\ pc = "energy_input"
    /\ dev \in {{d} : d \in EnergyDevices}
    /\ devices = <<>>
    /\ cmd = Command("scan", <<>>, {}, {}, {}, "name")
    /\ found = <<>> /\ matches = <<>>
    /\ transport = <<>> /\ sent = <<>> /\ faults = {}
    /\ opened = {} /\ released = {} /\ round = 0
    /\ baselineFile = {} /\ diffOut = {}
    /\ snapshotFile = {} /\ scanLog = <<>>
    /\ output = <<>> /\ exitCode = {}
    /\ cancel = {} /\ replies = <<>>

\* info.update(_get_energy(dev)) on the device drawn by InitEnergy.
GetEnergy ==
    /\ pc = "energy_input"
    /\ devices' = <<_get_energy(CHOOSE d \in dev : TRUE)>>
    /\ pc' = "energy_done"
    /\ UNCHANGED <<cancel, replies, cmd, found, dev, matches, transport, sent,
                   faults, opened, released, round, baselineFile,
                   snapshotFile, scanLog, diffOut, output, exitCode>>

NextEnergy == GetEnergy

SpecEnergy == InitEnergy /\ [][NextEnergy]_vars

---------------------------------------------------------------------------
(* Claims about resolution and control.                                    *)

\* A name contains the identifier as a case-insensitive substring: at some
\* offset every character of the identifier equals the name's character up
\* to letter case.  A device whose alias is unread has the empty name.
ContainsIgnoringCase(name, id) ==
    \E off \in 0..Len(name) :
        /\ off + Len(id) <= Len(name)
        /\ \A j \in 1..Len(id) : lower_char(name[off + j]) = lower_char(id[j])

NameOf(s) == IF s.alias = {} THEN <<>> ELSE CHOOSE a \in s.alias : TRUE

\* The sessions of the last broadcast round whose name matches the command's
\* identifier.
Matching == {i \in 1..Len(found) : ContainsIgnoringCase(NameOf(found[i]), cmd.device)}

\* The identifier is four dot-separated parts, each a non-empty run of
\* digits: three dots, none first, last or next to another, digits elsewhere.
FourDigitParts(id) ==
    /\ Cardinality({i \in 1..Len(id) : id[i] = "."}) = 3
    /\ \A i \in 1..Len(id) : id[i] = "." \/ id[i] \in DigitChars
    /\ Len(id) > 0 /\ id[1] # "." /\ id[Len(id)] # "."
    /\ \A i \in 1..(Len(id) - 1) : ~ (id[i] = "." /\ id[i + 1] = ".")

ByName == pc \in {"resolved", "done"} /\ transport = <<<<"discover">>>>

\* The (name, address) pairs _find_device listed as candidates.
Candidates ==
    {<<output[i][2], output[i][3]>> :
        i \in {j \in 1..Len(output) : output[j][1] = "candidate"}}

\* C1: after a name search, no matching name in the round gives None and
\* "No device matching"; exactly one gives that device's session; two or
\* more give None, with the name (or "Unknown") and address of every
\* matching device listed, never one of the sessions.
C1_NameResolution ==
    ByName =>
        /\ Matching = {} =>
              /\ dev = {}
              /\ <<"no_device_matching", cmd.device>> \in Range(output)
        /\ Cardinality(Matching) = 1 =>
              dev = {found[i] : i \in Matching}
        /\ Cardinality(Matching) >= 2 =>
              /\ dev = {}
              /\ <<"multiple_devices_match", cmd.device>> \in Range(output)
              /\ Candidates =
                    {<<IF found[i].alias = {} THEN NameUnknown
                       ELSE NameOf(found[i]), found[i].ip>> : i \in Matching}

\* An ambiguous round of three sessions: two match an identifier that
\* differs from their names in letter case, the third does not match.
C1_Witness ==
    /\ ByName
    /\ Len(found) = 3
    /\ Cardinality(Matching) = 2
    /\ \E i \in Matching : ~ str_in(cmd.device, NameOf(found[i]))
    /\ dev = {}

\* C2: when a name search returns, the sessions of the round still open are
\* exactly the returned one: none after NotFound or Ambiguous, and only the
\* match after a single match.
C2_OthersReleased ==
    (pc = "resolved" /\ transport = <<<<"discover">>>>) =>
        /\ opened = {<<0, found[i].ip>> : i \in 1..Len(found)}
        /\ opened \ released = {<<0, s.ip>> : s \in dev}

\* A single match in a round of three sessions: the two others released.
C2_Witness ==
    /\ pc = "resolved" /\ transport = <<<<"discover">>>>
    /\ dev # {}
    /\ Len(found) = 3
    /\ Cardinality(released) = 2

\* C3: when an on / off / toggle command has ended, every session opened
\* during it has been released.
C3_AllSessionsReleased ==
    (pc = "done" /\ cmd.name \in {"on", "off", "toggle"}) =>
        opened \subseteq released

\* C5: an identifier of four all-digit parts is resolved by one unicast
\* discovery of that address and no broadcast, and if the unicast discovery
\* or the update after it failed the result is None.
C5_IpLiteralUnicastOnly ==
    (pc \in {"resolved", "done"} /\ cmd.name \in {"on", "off", "toggle"}
       /\ FourDigitParts(cmd.device)) =>
        /\ transport = <<<<"discover_single", cmd.device>>>>
        /\ (faults \cap {"discover_single", "update"} # {}) =>
              /\ dev = {}
              /\ <<"could_not_reach", cmd.device>> \in Range(output)
        /\ (faults \cap {"discover_single", "update"} = {}) =>
              \E s \in dev : s.ip = cmd.device

\* An address whose unicast discovery answered and whose update then
\* failed: resolved to None.
C5_Witness ==
    /\ pc = "resolved"
    /\ FourDigitParts(cmd.device)
    /\ faults = {"update"}
    /\ opened # {}
    /\ dev = {}

---------------------------------------------------------------------------
(* Claims about discovery rounds and the commands' results.                *)

\* The statements of watch_loop between the return of discover_devices
\* and the next call.
AfterDiscovery == {"w_render", "w_snapshot", "w_log", "w_sleep"}

\* discover_devices has returned: to main, or to watch_loop.
RoundEnded ==
    \/ /\ cmd.name \in {"scan", "baseline", "diff"}
       /\ pc = "done"
       /\ transport # <<>>
    \/ cmd.name = "watch" /\ pc \in AfterDiscovery

\* C4: at the end of every round of discover_devices, broadcast or unicast,
\* every session the round opened has been released, those whose update
\* failed included, so no session is open between the rounds of a watch.
C4_RoundReleasesAll ==
    RoundEnded =>
        /\ opened \ released = {}
        /\ {<<round, found[i].ip>> : i \in 1..Len(found)} \subseteq released

\* The second round of a watch has ended, and the update of a session it
\* opened had failed.
C4_Witness ==
    /\ RoundEnded
    /\ cmd.name = "watch" /\ round = 2 /\ pc = "w_sleep"
    /\ \E i \in 1..Len(found) :
          ~ found[i].update_ok /\ <<2, found[i].ip>> \in opened

\* The diff command ended on its own: it returned, exited or raised.  A
\* command a SIGINT ended (pc = "interrupted") did not.
DiffEnded == cmd.name = "diff" /\ pc \in {"done", "crashed"}

\* A diff was computed and its four lists are empty.
EmptyDiffComputed ==
    /\ diffOut # {}
    /\ \A d \in diffOut :
          /\ d.added = <<>> /\ d.removed = <<>>
          /\ d.ip_changed = <<>> /\ d.name_changed = <<>>

NoChangesReported == <<"no_changes_detected">> \in Range(output)

\* C9: a diff command reports "No changes detected" exactly when it computed
\* a diff whose four lists are empty; without a baseline it tells the caller
\* to create one, exits 1, runs no discovery and computes no diff; when the
\* discovery finds no device it exits 1 and computes no diff.  The line is
\* never printed for anything else, also by a command a SIGINT ends on its
\* way; a command that ended on its own printed it for every such diff.
C9_NoChangesOnlyForComputedDiff ==
    /\ (cmd.name = "diff" /\ NoChangesReported) => EmptyDiffComputed
    /\ DiffEnded =>
        /\ NoChangesReported <=> EmptyDiffComputed
        /\ baselineFile = {} =>
              /\ output = <<<<"no_baseline_found">>>>
              /\ exitCode = {1}
              /\ transport = <<>>
              /\ diffOut = {}
        /\ (pc = "done" /\ baselineFile # {} /\ found = <<>>) =>
              /\ transport = <<<<"discover">>>>
              /\ exitCode = {1}
              /\ diffOut = {}
        /\ (pc = "done" /\ baselineFile # {} /\ found # <<>>) =>
              /\ diffOut # {}
              /\ exitCode = {0}
        /\ pc = "crashed" => diffOut = {}

\* A diff command that found the devices of its baseline unchanged.
C9_Witness ==
    /\ DiffEnded
    /\ diffOut # {}
    /\ NoChangesReported
    /\ baselineFile = {save_baseline(devices)}
    /\ Len(devices) = 2

\* No device to report: the discovery of a scan, baseline or diff command
\* found none (or the diff command had no baseline to look for devices
\* with), the filters of a scan left none, or no device matched the target
\* of on / off / toggle.
NoDeviceFound ==
    IF cmd.name \in {"on", "off", "toggle"}
    THEN dev = {} /\ Len(matches) < 2
    ELSE devices = <<>>

AmbiguousTarget == cmd.name \in {"on", "off", "toggle"} /\ Len(matches) >= 2

ControlFailed == \E i \in 1..Len(output) : output[i][1] = "failed"

\* C10: a command ends with exit code 1 when no device was found (a scan
\* whose filters leave no device to report included), when the target was
\* ambiguous or when the control command failed, and with 0 otherwise.
C10_ExitCodeRule ==
    pc = "done" =>
        exitCode = IF NoDeviceFound \/ AmbiguousTarget \/ ControlFailed
                   THEN {1} ELSE {0}

---------------------------------------------------------------------------
(* SpecDiff: print_diff applied to bounded baseline and current lists.     *)

DiffRecords ==
    [name : {NameLa, NameF}, mac : {Mac1, Mac2, MacUnknown},
     ip : Hosts(MaxLen), type : {TypePlug}, is_on : {{}}]

\* A list discover_devices can return: one record per address, no two
\* devices reporting the same mac (a device that reported none has
\* "Unknown"), sorted by lower-cased name.
Producible(list) ==
    /\ \A i, j \in 1..Len(list) :
          i # j => /\ list[i].ip # list[j].ip
                   /\ list[i].mac = list[j].mac => list[i].mac = MacUnknown
    /\ \A i \in 1..(Len(list) - 1) :
          str_le(lower(list[i].name), lower(list[i + 1].name))

\* Neither list is empty: the baseline command saves no empty list and the
\* diff command calls print_diff only on a non-empty list.
DiffLists ==
    {l \in BoundedSeq(DiffRecords, MaxLen) : l # <<>> /\ Producible(l)}

InitDiff ==
    /\ pc = "diff_input"
    /\ baselineFile \in {{save_baseline(b)} : b \in DiffLists}
    /\ devices \in DiffLists
    /\ diffOut = {}
    /\ cmd = Command("diff", <<>>, {}, {}, {}, "name")
    /\ found = <<>> /\ dev = {} /\ matches = <<>>
    /\ transport = <<>> /\ sent = <<>> /\ faults = {}
    /\ opened = {} /\ released = {} /\ round = 0
    /\ snapshotFile = {} /\ scanLog = <<>>
    /\ output = <<>> /\ exitCode = {}
    /\ cancel = {} /\ replies = <<>>

\* print_diff(devices, bl) on the lists drawn by InitDiff.
DiffStep ==
    /\ pc = "diff_input"
    /\ diffOut' = {print_diff(devices,
                              CHOOSE b \in load_baseline(baselineFile).bl :
                                 TRUE)}
    /\ pc' = "diff_done"
    /\ UNCHANGED <<cancel, replies, cmd, found, dev, matches, transport, sent, faults, opened,
                   released, round, devices, baselineFile, snapshotFile,
                   scanLog, output, exitCode>>

NextDiff == DiffStep

SpecDiff == InitDiff /\ [][NextDiff]_vars

---------------------------------------------------------------------------
(* Claims about the diff.                                                  *)

TheBaseline == (CHOOSE b \in load_baseline(baselineFile).bl : TRUE).devices
TheDiff == CHOOSE d \in diffOut : TRUE

MacsOf(list) == {list[i].mac : i \in 1..Len(list)}

\* The record a mac stands for in a list: the last one carrying it.
LastRec(list, m) ==
    list[CHOOSE i \in 1..Len(list) :
            /\ list[i].mac = m
            /\ \A j \in (i + 1)..Len(list) : list[j].mac # m]

PairMacs(pairs) == {pairs[i][2].mac : i \in 1..Len(pairs)}

\* C6: in a computed diff, added is exactly the current records whose mac
\* does not occur in the baseline, removed is exactly the baseline records
\* whose mac does not occur in the current scan, and a mac present in both
\* is in neither.
C6_AddedRemovedExact ==
    diffOut # {} =>
        /\ Range(TheDiff.added) =
              {devices[i] : i \in {j \in 1..Len(devices) :
                                     devices[j].mac \notin MacsOf(TheBaseline)}}
        /\ Range(TheDiff.removed) =
              {TheBaseline[i] : i \in {j \in 1..Len(TheBaseline) :
                                     TheBaseline[j].mac \notin MacsOf(devices)}}
        /\ \A m \in MacsOf(TheBaseline) \cap MacsOf(devices) :
              /\ m \notin MacsOf(TheDiff.added)
              /\ m \notin MacsOf(TheDiff.removed)

\* C7: in a computed diff, ip_changed holds exactly the macs present in
\* both lists whose ip differs and name_changed exactly those whose name
\* differs (a mac standing for its last record in each list), each as the
\* pair (baseline record, current record); the two are independent, so a
\* mac differing in both is in both, and a mac differing only in name is in
\* name_changed and in no other list.
C7_IpNameChangedIndependent ==
    diffOut # {} =>
        LET both == MacsOf(TheBaseline) \cap MacsOf(devices)
            old(m) == LastRec(TheBaseline, m)
            new(m) == LastRec(devices, m)
            d == TheDiff
        IN /\ PairMacs(d.ip_changed) = {m \in both : old(m).ip # new(m).ip}
           /\ PairMacs(d.name_changed) =
                 {m \in both : old(m).name # new(m).name}
           /\ \A i \in 1..Len(d.ip_changed) :
                 d.ip_changed[i] =
                    <<old(d.ip_changed[i][2].mac), new(d.ip_changed[i][2].mac)>>
           /\ \A i \in 1..Len(d.name_changed) :
                 d.name_changed[i] =
                    <<old(d.name_changed[i][2].mac), new(d.name_changed[i][2].mac)>>
           /\ \A m \in both :
                 (old(m).name # new(m).name /\ old(m).ip = new(m).ip) =>
                    /\ m \in PairMacs(d.name_changed)
                    /\ m \notin PairMacs(d.ip_changed)
                    /\ m \notin MacsOf(d.added)
                    /\ m \notin MacsOf(d.removed)

\* A diff in which one mac changed both ip and name, and another diff
\* cannot be the same state: this state has a mac in both lists.
C7_Witness ==
    /\ diffOut # {}
    /\ \E m \in MacsOf(TheBaseline) \cap MacsOf(devices) :
          /\ m \in PairMacs(TheDiff.ip_changed)
          /\ m \in PairMacs(TheDiff.name_changed)

\* C8: the diff of a list against itself has empty added, removed,
\* ip_changed and name_changed, also when records of the list share a mac.
C8_SelfDiffEmpty ==
    (diffOut # {} /\ TheBaseline = devices) =>
        /\ TheDiff.added = <<>>
        /\ TheDiff.removed = <<>>
        /\ TheDiff.ip_changed = <<>>
        /\ TheDiff.name_changed = <<>>

\* A list diffed against itself in which two records share the mac
\* "Unknown" and differ in ip and name.
C8_Witness ==
    /\ diffOut # {}
    /\ TheBaseline = devices
    /\ \E i, j \in 1..Len(devices) :
          /\ i # j
          /\ devices[i].mac = MacUnknown /\ devices[j].mac = MacUnknown
          /\ devices[i].ip # devices[j].ip
          /\ devices[i].name # devices[j].name

---------------------------------------------------------------------------
(* Claims about the raw scan.                                              *)

\* The datagrams that decode: a legacy reply (JSON with system.get_sysinfo
\* under XOR 0xAB) or a plain reply (JSON with a result object).
Decodable == {DatagramLegacyFull, DatagramLegacyBare, TextResultFull}

DecodableReplies == SelectSeq(replies, LAMBDA r : r[3] \in Decodable)

\* C11: in a raw discovery round a reply that decodes under neither scheme
\* adds no record and does not end the round: the records are those of the
\* decodable replies, one each and in the order received, and the receive
\* loop of the probe goes on after an undecodable reply.
C11_UndecodableDropped ==
    /\ [](/\ Len(devices) = Len(DecodableReplies)
          /\ \A k \in 1..Len(devices) : devices[k].ip = DecodableReplies[k][2])
    /\ [][(Len(replies') = Len(replies) + 1
           /\ replies'[Len(replies')][3] \notin Decodable)
          => (pc' = "raw_recv" /\ round' = round /\ devices' = devices)]_vars

\* One valid legacy reply and one undecodable reply, the undecodable one
\* first and both in the window of one probe: exactly one record.
C11_Witness ==
    /\ pc = "raw_done"
    /\ Len(replies) = 2
    /\ replies[1][3] = DatagramGarbage
    /\ replies[2][3] = DatagramLegacyFull
    /\ replies[1][1] = replies[2][1]
    /\ Len(devices) = 1
    /\ devices[1].alias = PyStr(NameLa)

\* C12: the result of one broadcast discovery round holds at most one entry
\* per source address.
C12_OneEntryPerAddress ==
    \A i, j \in 1..Len(devices) :
        (cmd.name = "raw_scan" /\ i # j) => devices[i].ip # devices[j].ip

---------------------------------------------------------------------------
(* Claims about the watch loop.                                            *)

\* The full result of the round in progress: one record per device found,
\* sorted by name.
FullRound ==
    sorted_devices([k \in 1..Len(found) |->
                       device_info(found[k].ip, found[k], cmd.energy)],
                   "name")

CancelledAt == (CHOOSE c \in cancel : TRUE)[1]
CancelledInRound == (CHOOSE c \in cancel : TRUE)[2]

\* The round in progress was rendered, and persisted if it found a device.
RoundRenderedAndPersisted ==
    /\ <<"found", round, FullRound>> \in Range(output)
    /\ FullRound # <<>> =>
          /\ snapshotFile = {csv_rows(round, FullRound)}
          /\ Len(scanLog) >= Len(FullRound)
          /\ SubSeq(scanLog, Len(scanLog) - Len(FullRound) + 1, Len(scanLog))
                = csv_rows(round, FullRound)

\* C13: a cancellation delivered while the loop sleeps stops the loop
\* before another discovery round starts; a cancellation delivered while a
\* round is in progress (discovery, refresh of the devices) lets that round
\* finish, be rendered and be persisted before the loop stops.
C13_CancellationAtSafePoint ==
    pc = "stopped" =>
       /\ round = CancelledInRound
       /\ Len(transport) = CancelledInRound
       /\ CancelledAt \in {"w_discover", "w_update", "w_disconnect"}
             => RoundRenderedAndPersisted

\* The rows of the log written in round r.
LogOfRound(r) == SelectSeq(scanLog, LAMBDA row : row[1] = r)

\* The snapshot and the log reflect the same round: the snapshot holds the
\* rows the log ends with.
SnapshotMatchesLog ==
    IF snapshotFile = {} THEN scanLog = <<>>
    ELSE \E rows \in snapshotFile :
            /\ rows # <<>>
            /\ Len(scanLog) >= Len(rows)
            /\ SubSeq(scanLog, Len(scanLog) - Len(rows) + 1, Len(scanLog)) = rows
            /\ LogOfRound(rows[1][1]) = rows

\* C14: in watch mode, whatever the interleaving of cancellation and device
\* failures, what is rendered and what is written to the snapshot and to
\* the log is the full result of a completed discovery round, and the
\* snapshot and the log are never left reflecting different rounds (they
\* differ only inside save_running_csv, between its two writes).
C14_NoPartialRound ==
    /\ [](pc # "w_log" => SnapshotMatchesLog)
    /\ [][/\ (output' # output /\ pc' # "stopped" /\ pc' # "crashed")
               => (/\ output' = <<<<"found", round, FullRound>>>>
                   /\ released' = opened')
          /\ snapshotFile' # snapshotFile
               => snapshotFile' = {csv_rows(round, FullRound)}
          /\ scanLog' # scanLog
               => scanLog' = scanLog \o csv_rows(round, FullRound)]_vars

\* C15: the watch loop leaves the Running state only through external
\* cancellation, whatever the outcome of a round (zero devices, refresh
\* failures, discovery errors).
C15_StopsOnlyOnCancellation ==
    pc \notin WatchRunning => (pc = "stopped" /\ cancel # {})

---------------------------------------------------------------------------
(* Claims about the files.                                                 *)

\* A round of scan or of watch is complete: scan has ended after its
\* discovery, watch has rendered and persisted the round and sleeps.
RoundCompleted ==
    \/ cmd.name = "scan" /\ pc = "done" /\ transport # <<>>
    \/ cmd.name = "watch" /\ pc = "w_sleep"

\* The rows of devices.csv: none when the file is missing.
SnapshotRowsNow ==
    IF snapshotFile = {} THEN <<>> ELSE CHOOSE rows \in snapshotFile : TRUE

\* C16: after every completed round of scan or watch, the snapshot file
\* holds exactly the rows of that round and nothing of an earlier round,
\* also when the round found no device after a round that found some.
C16_SnapshotIsLastRound ==
    RoundCompleted => SnapshotRowsNow = csv_rows(round, devices)

IsPrefix(a, b) == Len(a) <= Len(b) /\ SubSeq(b, 1, Len(a)) = a

\* The log holds timestamped rows, not the text of a scan.
LogHoldsRows == \A k \in 1..Len(scanLog) : Len(scanLog[k]) = 2

\* C17: the scan log is append-only: the log before a round is a prefix of
\* the log after it, and a persisted round adds one row per device of the
\* round, all with the same timestamp.
C17_LogAppendOnly ==
    [][/\ LogHoldsRows'
       /\ IsPrefix(scanLog, scanLog')
       /\ scanLog' # scanLog =>
            LET added == SubSeq(scanLog', Len(scanLog) + 1, Len(scanLog'))
            IN /\ Len(added) = Len(devices')
               /\ \A k \in 1..Len(added) :
                     /\ added[k][2] = csv_fields(devices'[k],
                                                 has_energy(devices'))
                     /\ added[k][1] = added[1][1]]_vars

\* C18: the baseline file is changed only by a baseline command whose
\* discovery found a device; a baseline command that finds none exits
\* with code 1 and leaves the baseline as it was.
C18_BaselineFrame ==
    /\ [][baselineFile' # baselineFile
            => (/\ cmd.name = "baseline"
                /\ devices' # <<>>
                /\ baselineFile' = {save_baseline(devices')})]_vars
    /\ []((cmd.name = "baseline" /\ pc = "done" /\ devices = <<>>)
            => exitCode = {1})

---------------------------------------------------------------------------
(* Claims about failures.                                                  *)

TheDevice == CHOOSE d \in dev : TRUE

\* The device accepted the power command: it was sent and did not raise.
PowerAccepted == Len(sent) >= 1 /\ sent[1] \notin faults

\* The power state of the device before the command, as the session read
\* it, and after the command.
PowerBefore == TheDevice.is_on
PowerAfter == IF PowerAccepted THEN {sent[1] = "turn_on"} ELSE PowerBefore

\* C19: when an on / off / toggle command reports failure, the power state
\* of the device is what it was before the command, at every failure point
\* of the sequence power command, refresh; a reported success means the
\* power command was accepted.
C19_FailureLeavesPowerState ==
    (cmd.name \in {"on", "off", "toggle"} /\ pc = "done" /\ dev # {})
        => /\ (ControlFailed /\ PowerBefore # {}) => PowerAfter = PowerBefore
           /\ ~ ControlFailed => PowerAccepted

\* The addresses of the devices whose refresh failed, in a dict found.
Degraded(fnd) == {fnd[k].ip : k \in {j \in 1..Len(fnd) : ~ fnd[j].update_ok}}

\* The outcome of the round (the records and what was printed) tells which
\* devices are degraded: no answer of the network with other degraded
\* devices has the same outcome.
OutcomeTellsDegraded ==
    \A env \in FoundEnvs(Hosts(MainHosts)) :
       \E r \in {discover_devices(round, {}, FALSE, env)} :
          (r.devices = devices /\ r.output = <<>>)
             => Degraded(env.found) = Degraded(found)

\* C20: in a round of discover_devices a device whose refresh fails still
\* yields exactly one record, with its last-known or default values, the
\* records of the other devices are unaffected, and the failure is
\* reported: the outcome tells a degraded device from a refreshed one.
C20_RefreshFailureReported ==
    (RoundEnded /\ cmd.name \in {"baseline", "diff"} /\ found # <<>>)
        => /\ Len(devices) = Len(found)
           /\ \A k \in 1..Len(found) :
                 \E i \in 1..Len(devices) :
                    devices[i] = device_info(found[k].ip, found[k], FALSE)
           /\ OutcomeTellsDegraded

---------------------------------------------------------------------------
(* Claims about the records' fields.                                       *)

\* The characters of the mac values of the model.
MacChars(m) ==
    IF m = Mac1
    THEN <<"A","A",":","B","B",":","C","C",":","0","0",":","0","0",":","0","1">>
    ELSE IF m = Mac2
    THEN <<"A","A",":","B","B",":","C","C",":","0","0",":","0","0",":","0","2">>
    ELSE NameUnknown

HexUpperChars == DigitChars \cup {"A", "B", "C", "D", "E", "F"}

\* Six octets of two uppercase hexadecimal digits, separated by colons.
IsCanonicalMac(s) ==
    /\ Len(s) = 17
    /\ \A i \in 1..Len(s) :
          IF i % 3 = 0 THEN s[i] = ":" ELSE s[i] \in HexUpperChars

\* C21: every record of every discovery round has a mac in canonical form,
\* uppercase hexadecimal octets separated by colons, also when the device
\* reported no mac or its refresh failed.
C21_MacCanonical ==
    RoundEnded =>
        \A i \in 1..Len(devices) : IsCanonicalMac(MacChars(devices[i].mac))

---------------------------------------------------------------------------
(* Claims about energy normalization.                                      *)

\* The four quantities: the field of the record, the milli-unit and the
\* base-unit key of the telemetry, and the decimals the field keeps.
Quantities ==
    {[field |-> "power_w", milli |-> "power_mw", base |-> "power",
      digits |-> 2],
     [field |-> "voltage_v", milli |-> "voltage_mv", base |-> "voltage",
      digits |-> 1],
     [field |-> "current_a", milli |-> "current_ma", base |-> "current",
      digits |-> 3],
     [field |-> "total_kwh", milli |-> "total_wh", base |-> "total",
      digits |-> 3]}

EnergyDone == pc = "energy_done"
TheMeter == CHOOSE d \in dev : TRUE
TheEnergy == devices[1]
Telemetry == TheMeter.emeter_realtime.items

\* The device has metering capability and its telemetry is a dict.
Metered ==
    TheMeter.has_emeter = {TRUE} /\ TheMeter.emeter_realtime.kind = "dict"

\* The quantity q is reported as a number under its milli-unit key.
MilliReported(q) ==
    dict_has(Telemetry, q.milli) /\ dict_get(Telemetry, q.milli) # {}

\* The quantity q is reported as a number under its base-unit key only.
BaseOnlyReported(q) ==
    /\ ~ dict_has(Telemetry, q.milli)
    /\ dict_has(Telemetry, q.base) /\ dict_get(Telemetry, q.base) # {}

MilliValue(q) == CHOOSE v \in dict_get(Telemetry, q.milli) : TRUE
BaseValue(q) == CHOOSE v \in dict_get(Telemetry, q.base) : TRUE

\* r = v / 1000.
IsThousandth(r, v) == r.n * 1000 = v * r.d

\* r is a number of the given decimals, and none of that many decimals is
\* nearer to v / 1000.
IsRoundedThousandth(r, v, digits) ==
    LET q == pow10(3 - digits)
        diff == r.n * q - v
    IN /\ r.d = pow10(digits)
       /\ 2 * diff <= q /\ 2 * (0 - diff) <= q

BaseOnlyPassedThrough ==
    \A q \in Quantities :
        (Metered /\ BaseOnlyReported(q))
            => TheEnergy[q.field] = {Rat(BaseValue(q), 1)}

Unmetered == ~ _safe(TheMeter, "has_emeter", FALSE)

NoMeterNoFields ==
    Unmetered => \A q \in Quantities : TheEnergy[q.field] = {}

\* C22 as stated: a value reported under the milli-unit key is divided by
\* 1000, also when the base-unit key is present; a value reported only
\* under the base-unit key is passed through unchanged; a device without
\* metering capability yields all four fields absent.
C22_DividedByThousand ==
    EnergyDone =>
        /\ \A q \in Quantities :
              (Metered /\ MilliReported(q))
                  => \E r \in TheEnergy[q.field] :
                        IsThousandth(r, MilliValue(q))
        /\ BaseOnlyPassedThrough
        /\ NoMeterNoFields

\* C22, amended: a value reported under the milli-unit key is divided by
\* 1000 and rounded to 2 decimals for power, 1 for voltage and 3 for
\* current and total energy, also when the base-unit key is present; a
\* value reported only under the base-unit key is passed through
\* unchanged; a device without metering capability yields all four fields
\* absent.
C22_DividedAndRounded ==
    EnergyDone =>
        /\ \A q \in Quantities :
              (Metered /\ MilliReported(q))
                  => /\ Cardinality(TheEnergy[q.field]) = 1
                     /\ \A r \in TheEnergy[q.field] :
                           IsRoundedThousandth(r, MilliValue(q), q.digits)
        /\ BaseOnlyPassedThrough
        /\ NoMeterNoFields

\* 1234 mW reported together with a power in watts gave 1.23 W, 120000 mV
\* gave 120.0 V, and the current reported in amperes only was passed on.
C22_Witness ==
    /\ EnergyDone /\ Metered
    /\ rt_get(Telemetry, "power_mw", {}) = {1234}
    /\ dict_has(Telemetry, "power")
    /\ rt_get(Telemetry, "voltage_mv", {}) = {120000}
    /\ ~ dict_has(Telemetry, "current_ma")
    /\ TheEnergy.power_w = {Rat(123, 100)}
    /\ TheEnergy.voltage_v = {Rat(1200, 10)}
    /\ TheEnergy.current_a = {Rat(3, 1)}

---------------------------------------------------------------------------
(* Claims about the order of the records.                                  *)

\* C23: the list discover_devices returns depends only on the devices
\* observed, not on the order in which they replied: a round in which the
\* same sessions replied in another order returns the same list, also when
\* two devices have the same name.
C23_OrderIndependent ==
    (RoundEnded /\ cmd.name \in {"baseline", "diff"})
        => \A env \in FoundEnvs(Hosts(MainHosts)) :
              Range(env.found) = Range(found)
                  => discover_devices(round, {}, FALSE, env).devices = devices

---------------------------------------------------------------------------
(* Claims about the classification of the diff.                            *)

\* No mac stands twice in a list of (baseline record, current record).
OncePerMac(pairs) ==
    \A i, j \in 1..Len(pairs) : i # j => pairs[i][2].mac # pairs[j][2].mac

\* C24: the diff classifies by distinct mac: every mac of the baseline or
\* of the current list is in exactly one of added, removed and present in
\* both lists; added and removed share no mac; ip_changed and name_changed
\* hold only macs present in both lists, each at most once.
C24_ClassifiedByMac ==
    diffOut # {} =>
        LET inBoth == MacsOf(TheBaseline) \cap MacsOf(devices)
            inAdded == MacsOf(TheDiff.added)
            inRemoved == MacsOf(TheDiff.removed)
        IN /\ \A m \in MacsOf(TheBaseline) \cup MacsOf(devices) :
                 Cardinality({s \in {inAdded, inRemoved, inBoth} : m \in s}) = 1
           /\ inAdded \cup inRemoved \cup inBoth
                 = MacsOf(TheBaseline) \cup MacsOf(devices)
           /\ inAdded \cap inRemoved = {}
           /\ PairMacs(TheDiff.ip_changed) \subseteq inBoth
           /\ PairMacs(TheDiff.name_changed) \subseteq inBoth
           /\ OncePerMac(TheDiff.ip_changed)
           /\ OncePerMac(TheDiff.name_changed)

\* A diff with a mac removed and a mac of both lists, carried by two
\* records of the current list, whose name changed.
C24_Witness ==
    /\ diffOut # {}
    /\ TheDiff.removed # <<>>
    /\ \E i, j \in 1..Len(devices) :
          /\ i # j /\ devices[i].mac = devices[j].mac
          /\ devices[i].mac \in PairMacs(TheDiff.name_changed)

---------------------------------------------------------------------------
(* Claims about the power commands.                                        *)

PowerCommands == {"turn_on", "turn_off"}

\* The power commands and the refreshes control_device sent, in order.
PowerSent == SelectSeq(sent, LAMBDA c : c \in PowerCommands)
RefreshSent == SelectSeq(sent, LAMBDA c : c = "update")

\* C25: on a resolved device, toggle sends exactly one power command,
\* turn-off if and only if the session reads the power state as on and
\* turn-on when it reads off or nothing; on sends turn-on and off sends
\* turn-off whatever the state; a power command the device accepted is
\* followed by exactly one refresh, and nothing is sent after a power
\* command that failed.
C25_PowerCommandChoice ==
    (cmd.name \in {"on", "off", "toggle"} /\ pc = "done" /\ dev # {})
        => /\ Len(PowerSent) = 1
           /\ sent[1] \in PowerCommands
           /\ cmd.name = "on" => PowerSent = <<"turn_on">>
           /\ cmd.name = "off" => PowerSent = <<"turn_off">>
           /\ cmd.name = "toggle" =>
                 /\ PowerSent = <<"turn_off">> <=> PowerBefore = {TRUE}
                 /\ PowerSent = <<"turn_on">> <=> PowerBefore \in {{FALSE}, {}}
           /\ IF PowerAccepted
              THEN sent = PowerSent \o <<"update">>
              ELSE RefreshSent = <<>>

\* A toggle of a device whose power state reads nothing sent turn-on and
\* then one refresh.
C25_Witness ==
    /\ cmd.name = "toggle" /\ pc = "done" /\ dev # {}
    /\ PowerBefore = {}
    /\ sent = <<"turn_on", "update">>

=============================================================================
